---- MODULE Spec2Model ----
(***************************************************************************)
(* Quick Cleaner: the zustand store (appStore), the cleanup views that     *)
(* drive it (CacheCleanup, DeveloperTools, LeftoverFiles, LargeFiles,      *)
(* Duplicates), the confirmation dialog and the sidebar navigation.        *)
(*                                                                         *)
(* One step of the model is one JavaScript task: a user event handler run  *)
(* to completion, or the resumption of an async function after the command *)
(* it awaits has settled, run up to its next await.  React state of an     *)
(* unmounted component is dropped: its setters do nothing.                 *)
(***************************************************************************)
EXTENDS Integers, Sequences, FiniteSets, TLC

(* ------------------------------ bounds ------------------------------- *)

\* Paths the engine can report, per kind of scan: 1..NPaths.
NPaths == 3
\* Toasts ever added (toastId is an unbounded counter in the code).
MaxToastId == 4
\* executeDelete runs in flight at once (one per view instance in the code).
MaxTasks == 2
\* Sidebar navigations in one behaviour of Spec,
MaxNav == 1
\* and in one behaviour of JourneySpec.
MaxJourney == 2
MaxScanToasts == 2
MaxQuickToasts == 5
MaxToasts == 3
MaxClock == 7
MaxInfoLoads == 4

Paths == 1..NPaths

(* ------------------------------ helpers ------------------------------ *)

RECURSIVE SortedSeq(_)
\* The elements of a finite set of integers, ascending.
SortedSeq(S) ==
  IF S = {} THEN <<>>
  ELSE LET m == CHOOSE x \in S : \A y \in S : x <= y
       IN <<m>> \o SortedSeq(S \ {m})

Range(s) == {s[i] : i \in 1..Len(s)}

RECURSIVE FlatMapPaths(_)
\* flatMap over sequences of sequences
FlatMapPaths(ss) == IF ss = <<>> THEN <<>> ELSE Head(ss) \o FlatMapPaths(Tail(ss))

\* Array.prototype.slice(1)
Slice1(s) == IF Len(s) <= 1 THEN <<>> ELSE SubSeq(s, 2, Len(s))

PathsOf(list) == {list[i].path : i \in 1..Len(list)}

\* Set.prototype.delete on an insertion-ordered Set
SetDelete(sel, p) == SelectSeq(sel, LAMBDA x : x # p)
\* Set.prototype.add on an insertion-ordered Set
SetAdd(sel, p) == IF p \in Range(sel) THEN sel ELSE Append(sel, p)

(* --------------------------- navigation ------------------------------ *)

NavSection == {"dashboard", "cache", "developer", "leftovers", "large-files", "duplicates"}
Views == NavSection \ {"dashboard"}

(* -------------------- the engine's possible answers ------------------ *)

\* Cache classifier: the safe flag is a property of the path (path 1 is a
\* protected system cache).
IsSafePath(p) == p # 1
CacheEntry(p) == [path |-> p, is_safe_to_delete |-> IsSafePath(p)]
\* The sets of paths a scan command may report
ScanSets == {{}, 1..2, 2..NPaths, 1..NPaths}

CacheScanResults ==
  {[i \in 1..Cardinality(S) |-> CacheEntry(SortedSeq(S)[i])] : S \in ScanSets}

\* Developer catalog: every entry is always reported, present or not; the
\* caution flag is fixed per entry (entry 1 needs caution).
DevSafePath(p) == p # 1
\* The size of a catalog entry as it would be if measured whether or not
\* the entry is on disk
DeveloperCacheSizeStale(p, ex) == p
\* The size is computed only if the entry is present; an absent entry is
\* reported with size 0.
DeveloperCacheSize(p, ex) == IF ex THEN p ELSE 0
DeveloperCache(p, ex) ==
  [path |-> p, exists |-> ex, safe_to_clean |-> DevSafePath(p),
   size |-> DeveloperCacheSize(p, ex)]
DeveloperScanResults ==
  {[p \in Paths |-> DeveloperCache(p, p \in S)] : S \in ScanSets}

PlainEntry(p) == [path |-> p]
PlainScanResults ==
  {[i \in 1..Cardinality(S) |-> PlainEntry(SortedSeq(S)[i])] : S \in ScanSets}

\* Duplicate finder: files 1..3 share one content, 4..6 the next, and so on;
\* all files of one content have the same size.
HashOf(p) == (p + 2) \div 3
Hashes == {HashOf(p) : p \in Paths}
FileSizeOf(h) == 2 * h
DuplicateGroup(h, S) ==
  LET files == SortedSeq({p \in S : HashOf(p) = h})
  IN [hash |-> h, files |-> files, file_size |-> FileSizeOf(h),
      total_wasted |-> FileSizeOf(h) * (Len(files) - 1)]
DuplicateScanResult(S) ==
  LET hs == SortedSeq({h \in Hashes : Cardinality({p \in S : HashOf(p) = h}) >= 2})
  IN [i \in 1..Len(hs) |-> DuplicateGroup(hs[i], S)]
DuplicateScanResults == {DuplicateScanResult(S) : S \in ScanSets}

ScanResults(kind) ==
  CASE kind = "cache" -> CacheScanResults
    [] kind = "developer" -> DeveloperScanResults
    [] kind = "duplicates" -> DuplicateScanResults
    [] OTHER -> PlainScanResults

(* ------------------------------ the store ---------------------------- *)

InitStore ==
  [currentSection |-> "dashboard",
   toasts |-> <<>>,
   systemInfo |-> "null",
   caches |-> <<>>, isLoadingCaches |-> FALSE,
   developerCaches |-> <<>>, isLoadingDeveloperCaches |-> FALSE, isDeveloper |-> FALSE,
   orphanFiles |-> <<>>, isLoadingOrphans |-> FALSE,
   largeFiles |-> <<>>, isLoadingLargeFiles |-> FALSE,
   duplicates |-> <<>>, isLoadingDuplicates |-> FALSE,
   \* module-level counter of appStore, the pending setTimeout callbacks and
   \* the time of the event loop, in seconds
   toastId |-> 0, timers |-> {}, now |-> 0]

\* The operations of the store object, as AppState declares them and
\* create() defines them.
StoreOperations ==
  {"setSection", "addToast", "dismissToast", "loadSystemInfo",
   "scanCaches", "deleteCache", "scanDeveloperCaches", "cleanDeveloperCache",
   "scanOrphanFiles", "deleteOrphan", "scanLargeFiles", "deleteFile",
   "scanDuplicates", "deleteDuplicate"}

\* The delay of the auto-dismiss timer, setTimeout(..., 5000), in seconds.
AutoDismissSeconds == 5

\* addToast as it would be without its setTimeout
addToastNoTimer(st, type) ==
  LET id == st.toastId + 1
  IN [st EXCEPT !.toastId = id,
                !.toasts = Append(@, [id |-> id, type |-> type])]

\* addToast: the next id, the toast appended, the auto-dismiss timer armed
addToast(st, type) ==
  LET id == st.toastId + 1
  IN [st EXCEPT !.toastId = id,
                !.toasts = Append(@, [id |-> id, type |-> type]),
                !.timers = @ \cup {[id |-> id, armed |-> st.now,
                                    due |-> st.now + AutoDismissSeconds]}]

\* dismissToast as it would be if it dropped the oldest toast
dismissToastOldest(st, id) ==
  [st EXCEPT !.toasts = IF @ = <<>> THEN @ ELSE Tail(@)]

\* dismissToast: toasts.filter((t) => t.id !== id)
dismissToast(st, id) ==
  [st EXCEPT !.toasts = SelectSeq(@, LAMBDA t : t.id # id)]

ListOf(st, kind) ==
  CASE kind = "cache" -> st.caches
    [] kind = "developer" -> st.developerCaches
    [] kind = "leftovers" -> st.orphanFiles
    [] kind = "large-files" -> st.largeFiles
    [] kind = "duplicates" -> st.duplicates

IsLoading(st, kind) ==
  CASE kind = "cache" -> st.isLoadingCaches
    [] kind = "developer" -> st.isLoadingDeveloperCaches
    [] kind = "leftovers" -> st.isLoadingOrphans
    [] kind = "large-files" -> st.isLoadingLargeFiles
    [] kind = "duplicates" -> st.isLoadingDuplicates

SetLoading(st, kind, b) ==
  CASE kind = "cache" -> [st EXCEPT !.isLoadingCaches = b]
    [] kind = "developer" -> [st EXCEPT !.isLoadingDeveloperCaches = b]
    [] kind = "leftovers" -> [st EXCEPT !.isLoadingOrphans = b]
    [] kind = "large-files" -> [st EXCEPT !.isLoadingLargeFiles = b]
    [] kind = "duplicates" -> [st EXCEPT !.isLoadingDuplicates = b]

\* The update as it would be if the result were added to the entries held.
SetListMerges(st, kind, list) ==
  CASE kind = "cache" -> [st EXCEPT !.caches = @ \o list]
    [] kind = "leftovers" -> [st EXCEPT !.orphanFiles = @ \o list]
    [] kind = "large-files" -> [st EXCEPT !.largeFiles = @ \o list]
    [] kind = "duplicates" -> [st EXCEPT !.duplicates = @ \o list]

\* set({ caches }), set({ orphanFiles }), set({ largeFiles }), set({ duplicates })
SetList(st, kind, list) ==
  CASE kind = "cache" -> [st EXCEPT !.caches = list]
    [] kind = "leftovers" -> [st EXCEPT !.orphanFiles = list]
    [] kind = "large-files" -> [st EXCEPT !.largeFiles = list]
    [] kind = "duplicates" -> [st EXCEPT !.duplicates = list]

\* The part of each store delete operation that runs once its command has
\* settled (cmdOk: the invoke resolved; otherwise it rejected).  Each gives
\* the new store and the boolean the operation resolves to.

\* deleteCache as it would be if it reported a path it did not find
deleteCacheNotFound(st, path, cmdOk) ==
  IF cmdOk
  THEN [store |-> [st EXCEPT !.caches = SelectSeq(@, LAMBDA c : c.path # path)],
        result |-> path \in PathsOf(st.caches)]
  ELSE [store |-> addToast(st, "error"), result |-> FALSE]

deleteCache(st, path, cmdOk) ==
  IF cmdOk
  THEN [store |-> [st EXCEPT !.caches = SelectSeq(@, LAMBDA c : c.path # path)],
        result |-> TRUE]
  ELSE [store |-> addToast(st, "error"), result |-> FALSE]

cleanDeveloperCache(st, path, cmdOk) ==
  IF cmdOk
  THEN [store |-> st, result |-> TRUE]
  ELSE [store |-> addToast(st, "error"), result |-> FALSE]

\* deleteOrphan as it would be without its set({ orphanFiles: ... })
deleteOrphanKeepsList(st, path, cmdOk) ==
  IF cmdOk
  THEN [store |-> st, result |-> TRUE]
  ELSE [store |-> addToast(st, "error"), result |-> FALSE]

deleteOrphan(st, path, cmdOk) ==
  IF cmdOk
  THEN [store |-> [st EXCEPT !.orphanFiles = SelectSeq(@, LAMBDA o : o.path # path)],
        result |-> TRUE]
  ELSE [store |-> addToast(st, "error"), result |-> FALSE]

\* deleteFile as it would be with an empty catch block
deleteFileSilent(st, path, cmdOk) ==
  IF cmdOk
  THEN [store |-> [st EXCEPT !.largeFiles = SelectSeq(@, LAMBDA f : f.path # path)],
        result |-> TRUE]
  ELSE [store |-> st, result |-> FALSE]

deleteFile(st, path, cmdOk) ==
  IF cmdOk
  THEN [store |-> [st EXCEPT !.largeFiles = SelectSeq(@, LAMBDA f : f.path # path)],
        result |-> TRUE]
  ELSE [store |-> addToast(st, "error"), result |-> FALSE]

\* files.filter((f) => f.path !== path) of one group; the other fields are
\* copied by the spread
GroupWithout(group, path) ==
  [group EXCEPT !.files = SelectSeq(@, LAMBDA f : f # path)]

\* the filter as it would be with length > 0
GroupKeptNonEmpty(group) == Len(group.files) > 0

\* .filter((group) => group.files.length > 1)
GroupKept(group) == Len(group.files) > 1

deleteDuplicate(st, path, cmdOk) ==
  IF cmdOk
  THEN [store |-> [st EXCEPT !.duplicates =
                     SelectSeq([i \in 1..Len(@) |-> GroupWithout(@[i], path)], GroupKept)],
        result |-> TRUE]
  ELSE [store |-> addToast(st, "error"), result |-> FALSE]

\* The commands as they would be if deleteFile removed the file directly.
DeleteInvokesDirect(kind, path) ==
  CASE kind = "cache" -> <<[cmd |-> "delete_cache", path |-> path]>>
    [] kind = "developer" -> <<[cmd |-> "clean_developer_cache", path |-> path]>>
    [] kind = "leftovers" -> <<[cmd |-> "delete_orphan", path |-> path]>>
    [] kind = "large-files" -> <<[cmd |-> "delete_orphan", path |-> path]>>
    [] kind = "duplicates" -> <<[cmd |-> "move_duplicate_to_trash", path |-> path]>>

\* The engine commands each store delete operation invokes before it settles:
\* await invoke("delete_cache", { path }) in deleteCache, and so on.
DeleteInvokes(kind, path) ==
  CASE kind = "cache" -> <<[cmd |-> "delete_cache", path |-> path]>>
    [] kind = "developer" -> <<[cmd |-> "clean_developer_cache", path |-> path]>>
    [] kind = "leftovers" -> <<[cmd |-> "delete_orphan", path |-> path]>>
    [] kind = "large-files" -> <<[cmd |-> "move_file_to_trash", path |-> path]>>
    [] kind = "duplicates" -> <<[cmd |-> "move_duplicate_to_trash", path |-> path]>>

\* The store operation each view calls for one path.
StoreDelete(kind, st, path, cmdOk) ==
  CASE kind = "cache" -> deleteCache(st, path, cmdOk)
    [] kind = "developer" -> cleanDeveloperCache(st, path, cmdOk)
    [] kind = "leftovers" -> deleteOrphan(st, path, cmdOk)
    [] kind = "large-files" -> deleteFile(st, path, cmdOk)
    [] kind = "duplicates" -> deleteDuplicate(st, path, cmdOk)


(* ---------------------- what a view renders -------------------------- *)

\* CacheCleanup: caches.filter(c => c.is_safe_to_delete)
CacheSafeCaches(st) == SelectSeq(st.caches, LAMBDA c : c.is_safe_to_delete)
\* DeveloperTools: developerCaches.filter(c => c.exists)
existingCaches(st) == SelectSeq(st.developerCaches, LAMBDA c : c.exists)
\* safeCaches as it would be without its filter on safe_to_clean
DevSafeCachesUnfiltered(st) == existingCaches(st)
\* DeveloperTools: existingCaches.filter(c => c.safe_to_clean)
DevSafeCaches(st) == SelectSeq(existingCaches(st), LAMBDA c : c.safe_to_clean)
\* Duplicates: duplicates.flatMap(group => group.files.slice(1).map(f => f.path))
allDuplicateFiles(st) ==
  FlatMapPaths([i \in 1..Len(st.duplicates) |-> Slice1(st.duplicates[i].files)])
\* Duplicates: duplicates.flatMap(g => g.files)
AllGroupFiles(st) ==
  FlatMapPaths([i \in 1..Len(st.duplicates) |-> st.duplicates[i].files])

PathSeq(list) == [i \in 1..Len(list) |-> list[i].path]

\* The paths the 'all' batch runs over, which are also the paths that
\* "Select All" selects and whose number decides whether the batch buttons
\* are rendered.
AllBatchPaths(kind, st) ==
  CASE kind = "cache" -> PathSeq(CacheSafeCaches(st))
    [] kind = "developer" -> PathSeq(DevSafeCaches(st))
    [] kind = "leftovers" -> PathSeq(st.orphanFiles)
    [] kind = "large-files" -> PathSeq(st.largeFiles)
    [] kind = "duplicates" -> allDuplicateFiles(st)

\* The paths whose row has a checkbox (toggleSelection).
CheckboxPaths(kind, st, v) ==
  CASE kind = "cache" -> PathsOf(CacheSafeCaches(st))
    [] kind = "developer" -> PathsOf(existingCaches(st))
    [] kind = "leftovers" -> PathsOf(st.orphanFiles)
    [] kind = "large-files" -> PathsOf(st.largeFiles)
    [] kind = "duplicates" ->
         UNION {Range(Slice1(st.duplicates[i].files)) :
                  i \in {j \in 1..Len(st.duplicates) :
                           st.duplicates[j].hash \in v.expandedGroups}}

\* The paths whose row has a delete button (handleDeleteSingle): the same
\* rows in every view.
SingleButtonPaths(kind, st, v) == CheckboxPaths(kind, st, v)

\* The paths the closure of executeDelete can find a name for.
KnownPaths(kind, st) ==
  CASE kind = "cache" -> PathsOf(st.caches)
    [] kind = "developer" -> PathsOf(existingCaches(st))
    [] kind = "leftovers" -> PathsOf(st.orphanFiles)
    [] kind = "large-files" -> PathsOf(st.largeFiles)
    [] kind = "duplicates" -> Range(AllGroupFiles(st))

\* The item shown by the progress overlay: the entry's name, else the path
\* ('selected' batches outside Duplicates), else ''.
ItemLabel(kind, type, st, p) ==
  IF p \in KnownPaths(kind, st) THEN <<"name", p>>
  ELSE IF type = "selected" /\ kind # "duplicates" THEN <<"path", p>>
  ELSE <<>>

NoProgress == [current |-> 0, total |-> 0, item |-> <<>>]

\* The report as it would be if it carried the one-based position of the item.
ProgressAtOneBased(paths, items, j) ==
  [current |-> j, total |-> Len(paths), item |-> items[j]]

\* setProgress({ current: i, total: paths.length, item: name }) at the top of
\* the loop body for the j-th path, j = i + 1 (i is the zero-based loop index);
\* for a single delete setProgress({ current: 0, total: 1, item: name }).
\* The setProgress({ current: 0, total, item: '' }) ahead of the loop is
\* overwritten by the first iteration in the same task and is never rendered.
ProgressAt(paths, items, j) ==
  [current |-> j - 1, total |-> Len(paths), item |-> items[j]]

InitView ==
  [selectedPaths |-> <<>>,
   isDeleting |-> FALSE,
   progress |-> NoProgress,
   confirmDialog |-> [isOpen |-> FALSE, type |-> "single", path |-> 0],
   expandedGroups |-> {}]


(* ------------------------------- state -------------------------------- *)

VARIABLES
  store,       \* the zustand state object, with toastId and the armed timers
  view,        \* the useState values of the mounted view component
  tasks,       \* executeDelete calls that have not returned yet
  scans,       \* scan operations started by a scan button, not yet settled
  infoLoads,   \* loadSystemInfo calls not yet settled
  navCount,    \* sidebar navigations so far
  lastDelete,  \* what the store delete operation of the last step did
  lastDone,    \* the executeDelete call that returned in the last step
  scanLog,     \* what the scan operations did: the last step, and the outcome
               \* of each kind over an uninterrupted run of scan steps
  lastDismiss, \* the dismissToast call of the last step
  call         \* a call of a pure function: its arguments and what it returned

vars == <<store, view, tasks, scans, infoLoads, navCount, lastDelete, lastDone, scanLog,
          lastDismiss, call>>

\* No pure function has been called.
NoCall == [fn |-> "none", done |-> FALSE]

NoDelete ==
  [kind |-> "none", path |-> 0, cmdOk |-> FALSE, result |-> FALSE,
   before |-> <<>>, after |-> <<>>, toasted |-> <<>>, invoked |-> <<>>]

NoTask ==
  [kind |-> "none", type |-> "single", paths |-> <<>>, items |-> <<>>, i |-> 0,
   successCount |-> 0, failCount |-> 0, pc |-> "done", mounted |-> FALSE,
   sel |-> <<>>, isDeveloper |-> FALSE, issued |-> <<>>, failed |-> <<>>, strays |-> <<>>,
   reports |-> <<>>, summary |-> <<>>, unsafe |-> <<>>, rescans |-> 0]

NoDismissal == [by |-> "none", id |-> 0, before |-> <<>>, armed |-> 0]

NoScanStep ==
  [kind |-> "none", step |-> "none", cmdOk |-> FALSE, res |-> <<>>,
   isDeveloper |-> FALSE, invoked |-> <<>>, before |-> InitStore,
   promise |-> "none"]

NoOutcome == [state |-> "none", res |-> <<>>, isDeveloper |-> FALSE]

NoScanLog ==
  [last |-> NoScanStep, base |-> InitStore, outcome |-> [k \in Views |-> NoOutcome]]

(* ---------------------------- scan operations ------------------------- *)

\* The engine command a scan operation invokes for its result list.
ScanCommand(kind) ==
  CASE kind = "cache" -> "scan_all_caches"
    [] kind = "developer" -> "scan_developer_caches"
    [] kind = "leftovers" -> "scan_orphan_files"
    [] kind = "large-files" -> "scan_common_large_files"
    [] kind = "duplicates" -> "scan_common_duplicates"

\* The operation as it would be if scanDeveloperCaches invoked its two
\* commands at once.
NewScanInvokesBoth(kind) ==
  [kind |-> kind,
   pc |-> IF kind = "developer" THEN "isdev" ELSE "scan",
   isDeveloper |-> FALSE,
   invoked |-> IF kind = "developer" THEN <<"is_developer_user", ScanCommand(kind)>>
               ELSE <<ScanCommand(kind)>>,
   deleted |-> {}]

\* A scan operation from its call to its first await: the loading flag is
\* set, then the first command is invoked (is_developer_user for
\* scanDeveloperCaches).
NewScan(kind) ==
  [kind |-> kind,
   pc |-> IF kind = "developer" THEN "isdev" ELSE "scan",
   isDeveloper |-> FALSE,
   invoked |-> IF kind = "developer" THEN <<"is_developer_user">>
               ELSE <<ScanCommand(kind)>>,
   deleted |-> {}]

\* The scans in flight when a store delete operation of their kind has
\* succeeded for path p: each records the path as deleted since it started.
ScansSeeDelete(scs, kind, p, success) ==
  [j \in 1..Len(scs) |->
     IF success /\ scs[j].kind = kind THEN [scs[j] EXCEPT !.deleted = @ \cup {p}]
     ELSE scs[j]]

\* The operation as it would be if its finally block reset every loading flag.
ScanSettledResetsFlags(st, kind, cmdOk, res, isDev) ==
  LET st1 ==
        IF ~cmdOk THEN addToast(st, "error")
        ELSE IF kind = "developer"
        THEN addToast([st EXCEPT !.developerCaches = res, !.isDeveloper = isDev], "success")
        ELSE addToast(SetList(st, kind, res), "success")
  IN [st1 EXCEPT !.isLoadingCaches = FALSE, !.isLoadingDeveloperCaches = FALSE,
                 !.isLoadingOrphans = FALSE, !.isLoadingLargeFiles = FALSE,
                 !.isLoadingDuplicates = FALSE]

\* scanCaches, scanOrphanFiles, scanLargeFiles, scanDuplicates and the second
\* half of scanDeveloperCaches, from the point where the scan command settles:
\* try { set(list); addToast(success) } catch { addToast(error) }
\* finally { set(loading false) }
ScanSettled(st, kind, cmdOk, res, isDev) ==
  LET st1 ==
        IF ~cmdOk THEN addToast(st, "error")
        ELSE IF kind = "developer"
        THEN addToast([st EXCEPT !.developerCaches = res, !.isDeveloper = isDev], "success")
        ELSE addToast(SetList(st, kind, res), "success")
  IN SetLoading(st1, kind, FALSE)

\* The promise of the operation as it would be if the catch block rethrew.
ScanPromiseRethrows(cmdOk) == IF cmdOk THEN "fulfilled" ELSE "rejected"

\* How the promise a scan operation returned is settled: the catch block
\* handles the error of a rejected command and throws nothing.
ScanPromise(cmdOk) == "fulfilled"

\* The operation as it would be without its finally block.
IsDeveloperFailedNoFinally(st) ==
  addToast(st, "error")

\* scanDeveloperCaches when is_developer_user rejects: catch, finally
IsDeveloperFailed(st) ==
  SetLoading(addToast(st, "error"), "developer", FALSE)

\* loadSystemInfo as it would be if its catch block cleared systemInfo
loadSystemInfoClearsOnError(st, cmdOk, info) ==
  IF cmdOk THEN [st EXCEPT !.systemInfo = info]
  ELSE addToast([st EXCEPT !.systemInfo = "null"], "error")

\* loadSystemInfo from the point where get_system_info settles, with the
\* value it resolved to: try { set({ systemInfo: info }) } catch { addToast }
loadSystemInfoWith(st, cmdOk, info) ==
  IF cmdOk THEN [st EXCEPT !.systemInfo = info] ELSE addToast(st, "error")

\* loadSystemInfo from the point where get_system_info settles
loadSystemInfo(st, cmdOk) == loadSystemInfoWith(st, cmdOk, "info")

\* How the promise loadSystemInfo returned is settled: the catch block
\* handles the rejection and throws nothing.
LoadPromise(cmdOk) == "fulfilled"

(* ------------------------- executeDelete, pieces ---------------------- *)

\* The list the confirmed run works through.
RunPaths(kind, cd, st, v) ==
  CASE cd.type = "single" -> <<cd.path>>
    [] cd.type = "selected" -> v.selectedPaths
    [] cd.type = "all" -> AllBatchPaths(kind, st)

\* LargeFiles.executeDelete declares no counters and drops the boolean that
\* deleteFile resolves to; the other views count each outcome.
CountsOutcomes(kind) == kind # "large-files"

\* if (success) successCount++; else failCount++;
CountOutcome(t, success) ==
  IF ~CountsOutcomes(t.kind) THEN t
  ELSE IF success THEN [t EXCEPT !.successCount = @ + 1]
  ELSE [t EXCEPT !.failCount = @ + 1]

\* the loop as it would be with a break on the first failure
LoopStopsOnFailure(t, success) == success /\ t.type # "single" /\ t.i < Len(t.paths)

\* for (let i = 0; i < paths.length; i++): whether another item follows the
\* one whose store operation has just resolved to `success`
LoopContinues(t, success) == t.type # "single" /\ t.i < Len(t.paths)

\* Whether the single branch takes the path out of the selection:
\* if (success) { selectedPaths.delete(path); setSelectedPaths(new Set(...)) }.
\* LargeFiles does it whatever deleteFile resolved to; Duplicates has no such
\* statement in its single branch.
SingleDeselects(t, success) ==
  /\ t.kind # "duplicates"
  /\ (success \/ t.kind = "large-files")

\* A state setter of a component does nothing once the component is unmounted.
SetView(t, v, vnew) == IF t.mounted THEN vnew ELSE v

\* The view after the single branch: the closure's Set without the path.
AfterSingle(t, v, success) ==
  IF t.type = "single" /\ SingleDeselects(t, success)
  THEN SetView(t, v, [v EXCEPT !.selectedPaths = SetDelete(t.sel, t.paths[t.i])])
  ELSE v

\* executeDelete as it would be without setSelectedPaths(new Set()) in its
\* batch branches
ClearsSelectionOfSingleOnly(t) == t.type = "single" /\ t.kind = "duplicates"

\* setSelectedPaths(new Set()) after the loop of a batch; Duplicates calls it
\* after every run, a single delete included
ClearsSelection(t) == t.type # "single" \/ t.kind = "duplicates"

SelectionAfterRun(t, sel) == IF ClearsSelection(t) THEN <<>> ELSE sel

\* The summary toast
SummaryType(t) ==
  IF t.successCount > 0 /\ t.failCount = 0 THEN "success"
  ELSE IF t.failCount > 0 /\ t.successCount > 0 THEN "warning"
  ELSE "none"

\* The addToast call of the summary, if the view makes one: its type and
\* the counts its message carries.  LargeFiles.executeDelete makes none.
SummaryCall(t) ==
  IF t.kind = "large-files" \/ SummaryType(t) = "none" THEN <<>>
  ELSE <<[type |-> SummaryType(t),
          counts |-> IF SummaryType(t) = "success" THEN <<t.successCount>>
                     ELSE <<t.successCount, t.failCount>>]>>

SummaryToast(st, t) ==
  IF SummaryCall(t) = <<>> THEN st ELSE addToast(st, SummaryCall(t)[1].type)

\* The end of executeDelete as it would be without setIsDeleting(false)
FinishKeepsDeleting(t, st, v) ==
  [store |-> SummaryToast(st, t),
   view |-> SetView(t, v, [v EXCEPT !.progress = NoProgress]),
   task |-> [t EXCEPT !.pc = "done", !.summary = SummaryCall(t)]]

\* The end of executeDelete: summary toast, setProgress(0, 0, ''),
\* setIsDeleting(false).
Finish(t, st, v) ==
  [store |-> SummaryToast(st, t),
   view |-> SetView(t, v, [v EXCEPT !.progress = NoProgress, !.isDeleting = FALSE]),
   task |-> [t EXCEPT !.pc = "done", !.summary = SummaryCall(t)]]

\* executeDelete of DeveloperTools as it would be without its
\* await scanDeveloperCaches()
PostLoopWithoutRescan(t, st, v) ==
  Finish(t, st, SetView(t, v, [v EXCEPT !.selectedPaths = SelectionAfterRun(t, @)]))

\* What follows the branch over the dialog type: the selection is cleared for
\* a batch; DeveloperTools then awaits scanDeveloperCaches(), whose first
\* statement sets the loading flag; the other views finish.
PostLoop(t, st, v) ==
  LET v1 == SetView(t, v, [v EXCEPT !.selectedPaths = SelectionAfterRun(t, @)])
  IN IF t.kind = "developer"
     THEN [store |-> SetLoading(st, "developer", TRUE), view |-> v1,
           task |-> [t EXCEPT !.pc = "isdev", !.rescans = @ + 1]]
     ELSE Finish(t, st, v1)

\* Toasts a run may still add: one per item not yet settled, the summary, and
\* the toast of the rescan in DeveloperTools.
TaskReserve(t) ==
  (IF t.pc = "delete" /\ t.i >= 1 THEN Len(t.paths) - t.i + 1 ELSE 0)
  + (IF CountsOutcomes(t.kind) /\ t.successCount > 0 THEN 1 ELSE 0)
  + (IF t.kind = "developer" THEN 1 ELSE 0)

RECURSIVE SumReserve(_)
SumReserve(ts) == IF ts = <<>> THEN 0 ELSE TaskReserve(Head(ts)) + SumReserve(Tail(ts))

Reserved == SumReserve(tasks) + Len(scans) + infoLoads

\* toastId is capped: nothing starts that could push it past MaxToastId.
Budget(need) == store.toastId + Reserved + need <= MaxToastId


(* ------------------------------ actions ------------------------------- *)

Init ==
  /\ store = InitStore
  /\ view = InitView
  /\ tasks = <<>>
  /\ scans = <<>>
  /\ infoLoads = 1      \* Dashboard's useEffect has called loadSystemInfo()
  /\ navCount = 0
  /\ lastDelete = NoDelete
  /\ lastDone = NoTask
  /\ scanLog = NoScanLog
  /\ lastDismiss = NoDismissal
  /\ call = NoCall

NoScan == scanLog' = NoScanLog /\ lastDismiss' = NoDismissal /\ UNCHANGED call

Quiet == lastDelete' = NoDelete /\ lastDone' = NoTask /\ NoScan

NoRun ==
  /\ lastDelete' = NoDelete /\ lastDone' = NoTask /\ lastDismiss' = NoDismissal
  /\ UNCHANGED <<view, tasks, infoLoads, navCount, call>>

RemoveAt(s, i) == SubSeq(s, 1, i - 1) \o SubSeq(s, i + 1, Len(s))

\* The controls of a view can be reached: a view is mounted and neither the
\* backdrop of the confirmation dialog nor the progress overlay covers it.
Interactive ==
  /\ store.currentSection \in Views
  /\ ~view.confirmDialog.isOpen
  /\ ~view.isDeleting

\* Sidebar: onClick={() => setSection(item.id)}.  The view component of the
\* old section is unmounted and the one of the new section mounted; mounting
\* the Dashboard calls loadSystemInfo().  The handler tests nothing, and the
\* sidebar is no part of the view whose dialog or overlay is shown: whether a
\* backdrop lies over it is left to the stylesheet, so a click on a sidebar
\* item is possible in every state.
Navigate(s, limit) ==
  /\ navCount < limit
  /\ s # store.currentSection
  /\ s = "dashboard" => Budget(1)
  /\ navCount' = navCount + 1
  /\ store' = [store EXCEPT !.currentSection = s]
  /\ view' = InitView
  /\ tasks' = [j \in 1..Len(tasks) |-> [tasks[j] EXCEPT !.mounted = FALSE]]
  /\ infoLoads' = IF s = "dashboard" THEN infoLoads + 1 ELSE infoLoads
  /\ UNCHANGED scans
  /\ Quiet

LoadSystemInfoSettles(cmdOk) ==
  /\ infoLoads > 0
  /\ infoLoads' = infoLoads - 1
  /\ store' = loadSystemInfo(store, cmdOk)
  /\ UNCHANGED <<view, tasks, scans, navCount>>
  /\ Quiet

\* The scan button of the mounted view: disabled={isLoading || isDeleting}.
StartScan ==
  /\ Interactive
  /\ ~IsLoading(store, store.currentSection)
  /\ Budget(1)
  /\ store' = SetLoading(store, store.currentSection, TRUE)
  /\ scans' = Append(scans, NewScan(store.currentSection))
  /\ UNCHANGED <<view, tasks, infoLoads, navCount>>
  /\ Quiet

\* is_developer_user settles inside scanDeveloperCaches
IsDeveloperSettles(si, cmdOk, b) ==
  /\ si \in 1..Len(scans)
  /\ scans[si].pc = "isdev"
  /\ IF cmdOk
     THEN /\ scans' = [scans EXCEPT ![si].pc = "scan", ![si].isDeveloper = b,
                                    ![si].invoked = Append(@, ScanCommand("developer"))]
          /\ store' = store
     ELSE /\ scans' = RemoveAt(scans, si)
          /\ store' = IsDeveloperFailed(store)
  /\ UNCHANGED <<view, tasks, infoLoads, navCount>>
  /\ Quiet

\* The scan command of a scan operation settles.
ScanSettles(si, cmdOk) ==
  /\ si \in 1..Len(scans)
  /\ scans[si].pc = "scan"
  /\ \E res \in ScanResults(scans[si].kind) :
       store' = ScanSettled(store, scans[si].kind, cmdOk, res, scans[si].isDeveloper)
  /\ scans' = RemoveAt(scans, si)
  /\ UNCHANGED <<view, tasks, infoLoads, navCount>>
  /\ Quiet

\* toggleSelection(path), from a checkbox
ToggleSelection(p) ==
  /\ Interactive
  /\ p \in CheckboxPaths(store.currentSection, store, view)
  /\ view' = [view EXCEPT !.selectedPaths =
                IF p \in Range(@) THEN SetDelete(@, p) ELSE SetAdd(@, p)]
  /\ UNCHANGED <<store, tasks, scans, infoLoads, navCount>>
  /\ Quiet

\* Duplicates: toggleGroup(hash), from a group's header
ToggleGroup(h) ==
  /\ Interactive
  /\ store.currentSection = "duplicates"
  /\ h \in {store.duplicates[i].hash : i \in 1..Len(store.duplicates)}
  /\ view' = [view EXCEPT !.expandedGroups =
                IF h \in @ THEN @ \ {h} ELSE @ \cup {h}]
  /\ UNCHANGED <<store, tasks, scans, infoLoads, navCount>>
  /\ Quiet

\* The select-all button: selectedPaths.size === n ? deselectAll : selectAll,
\* rendered when the view has something to delete.
ToggleAll ==
  /\ Interactive
  /\ LET kind == store.currentSection
         all == AllBatchPaths(kind, store)
     IN /\ Len(all) > 0
        /\ view' =
             IF Len(view.selectedPaths) = Len(all)
             THEN [view EXCEPT !.selectedPaths = <<>>]
             ELSE [view EXCEPT
                     !.selectedPaths = all,
                     !.expandedGroups =
                        IF kind = "duplicates"
                        THEN {store.duplicates[i].hash : i \in 1..Len(store.duplicates)}
                        ELSE @]
  /\ UNCHANGED <<store, tasks, scans, infoLoads, navCount>>
  /\ Quiet

handleDeleteSingle(p) ==
  /\ Interactive
  /\ p \in SingleButtonPaths(store.currentSection, store, view)
  /\ view' = [view EXCEPT !.confirmDialog = [isOpen |-> TRUE, type |-> "single", path |-> p]]
  /\ UNCHANGED <<store, tasks, scans, infoLoads, navCount>>
  /\ Quiet

handleDeleteSelected ==
  /\ Interactive
  /\ Len(AllBatchPaths(store.currentSection, store)) > 0
  /\ Len(view.selectedPaths) > 0
  /\ view' = [view EXCEPT !.confirmDialog = [isOpen |-> TRUE, type |-> "selected", path |-> 0]]
  /\ UNCHANGED <<store, tasks, scans, infoLoads, navCount>>
  /\ Quiet

handleDeleteAll ==
  /\ Interactive
  /\ Len(AllBatchPaths(store.currentSection, store)) > 0
  /\ view' = [view EXCEPT !.confirmDialog = [isOpen |-> TRUE, type |-> "all", path |-> 0]]
  /\ UNCHANGED <<store, tasks, scans, infoLoads, navCount>>
  /\ Quiet

\* onCancel as it would be if it also reset the selection
CancelResetsSelection ==
  /\ store.currentSection \in Views
  /\ view.confirmDialog.isOpen
  /\ view' = [view EXCEPT !.confirmDialog.isOpen = FALSE, !.selectedPaths = <<>>]
  /\ UNCHANGED <<store, tasks, scans, infoLoads, navCount>>
  /\ Quiet

\* ConfirmDialog: backdrop, close button and Cancel all call onCancel
Cancel ==
  /\ store.currentSection \in Views
  /\ view.confirmDialog.isOpen
  /\ view' = [view EXCEPT !.confirmDialog.isOpen = FALSE]
  /\ UNCHANGED <<store, tasks, scans, infoLoads, navCount>>
  /\ Quiet

\* Whether path p is a copy the Duplicates view offers for deletion: a file
\* at index >= 1 of a group of the store's list.
IsListedCopy(st, p) ==
  \E gi \in 1..Len(st.duplicates) :
    \E fi \in 2..Len(st.duplicates[gi].files) : st.duplicates[gi].files[fi] = p

\* What a call of move_duplicate_to_trash adds to the record of calls made
\* for a path that is no such copy when the call is made.
Stray(kind, st, p) ==
  IF kind = "duplicates" /\ ~IsListedCopy(st, p) THEN <<p>> ELSE <<>>

\* Whether path p is a cache the Cache Cleanup view offers for deletion: an
\* entry of the store's list with is_safe_to_delete.
IsSafeCache(st, p) ==
  \E j \in 1..Len(st.caches) : st.caches[j].path = p /\ st.caches[j].is_safe_to_delete

\* What a call of delete_cache adds to the record of calls made for a path
\* that is no such cache when the call is made.
Unsafe(kind, st, p) ==
  IF kind = "cache" /\ ~IsSafeCache(st, p) THEN <<p>> ELSE <<>>

\* ConfirmDialog: onClick={() => { onConfirm(); onCancel(); }}.  executeDelete
\* runs up to its first await: the first delete command is issued, or, when
\* the list is empty, the function runs on to the rescan (DeveloperTools) or
\* to its end.
Confirm ==
  /\ store.currentSection \in Views
  /\ view.confirmDialog.isOpen
  /\ Len(tasks) < MaxTasks
  /\ LET kind == store.currentSection
         cd == view.confirmDialog
         paths == RunPaths(kind, cd, store, view)
         n == Len(paths)
         items0 == [j \in 1..n |-> ItemLabel(kind, cd.type, store, paths[j])]
         t0 == [kind |-> kind, type |-> cd.type, paths |-> paths,
                items |-> items0,
                i |-> IF n = 0 THEN 0 ELSE 1,
                successCount |-> 0, failCount |-> 0,
                pc |-> "delete", mounted |-> TRUE,
                sel |-> view.selectedPaths, isDeveloper |-> FALSE,
                issued |-> IF n = 0 THEN <<>> ELSE <<paths[1]>>,
                failed |-> <<>>,
                strays |-> IF n > 0 THEN Stray(kind, store, paths[1]) ELSE <<>>,
                reports |-> IF n = 0 THEN <<>>
                            ELSE <<[report |-> ProgressAt(paths, items0, 1), settled |-> 0]>>,
                summary |-> <<>>,
                unsafe |-> IF n > 0 THEN Unsafe(kind, store, paths[1]) ELSE <<>>,
                rescans |-> 0]
         v0 == [view EXCEPT
                  !.isDeleting = TRUE,
                  !.progress = IF n = 0 THEN [current |-> 0, total |-> 0, item |-> <<>>]
                               ELSE ProgressAt(paths, items0, 1),
                  !.confirmDialog.isOpen = FALSE]
     IN /\ Budget(TaskReserve(t0))
        /\ IF n > 0
           THEN /\ view' = v0
                /\ store' = store
                /\ tasks' = Append(tasks, t0)
                /\ lastDone' = NoTask
           ELSE LET post == PostLoop(t0, store, v0)
                IN /\ view' = post.view
                   /\ store' = post.store
                   /\ tasks' = IF post.task.pc = "done" THEN tasks
                               ELSE Append(tasks, post.task)
                   /\ lastDone' = IF post.task.pc = "done" THEN post.task ELSE NoTask
  /\ lastDelete' = NoDelete
  /\ NoScan
  /\ UNCHANGED <<scans, infoLoads, navCount>>

\* The delete command a run awaits settles: the store operation finishes and
\* executeDelete goes on to its next await or to its end.
DeleteSettles(ti, cmdOk) ==
  /\ ti \in 1..Len(tasks)
  /\ tasks[ti].pc = "delete"
  /\ LET t == tasks[ti]
         p == t.paths[t.i]
         r == StoreDelete(t.kind, store, p, cmdOk)
         t1 == [CountOutcome(t, r.result) EXCEPT !.failed = IF r.result THEN @ ELSE Append(@, p)]
         v1 == AfterSingle(t, view, r.result)
     IN /\ lastDelete' =
             [kind |-> t.kind, path |-> p, cmdOk |-> cmdOk, result |-> r.result,
              before |-> ListOf(store, t.kind), after |-> ListOf(r.store, t.kind),
              toasted |-> [j \in 1..(Len(r.store.toasts) - Len(store.toasts)) |->
                             r.store.toasts[Len(store.toasts) + j].type],
              invoked |-> DeleteInvokes(t.kind, p)]
        /\ IF LoopContinues(t1, r.result)
           THEN /\ tasks' = [tasks EXCEPT ![ti] =
                               [t1 EXCEPT !.i = @ + 1,
                                          !.issued = Append(@, t.paths[t.i + 1]),
                                          !.strays = @ \o Stray(t.kind, r.store, t.paths[t.i + 1]),
                                          !.unsafe = @ \o Unsafe(t.kind, r.store, t.paths[t.i + 1]),
                                          !.reports = Append(@,
                                             [report |-> ProgressAt(t.paths, t.items, t.i + 1),
                                              settled |-> t.i])]]
                /\ store' = r.store
                /\ view' = SetView(t, v1,
                             [v1 EXCEPT !.progress = ProgressAt(t.paths, t.items, t.i + 1)])
                /\ lastDone' = NoTask
           ELSE LET post == PostLoop(t1, r.store, v1)
                IN /\ store' = post.store
                   /\ view' = post.view
                   /\ tasks' = IF post.task.pc = "done" THEN RemoveAt(tasks, ti)
                               ELSE [tasks EXCEPT ![ti] = post.task]
                   /\ lastDone' = IF post.task.pc = "done" THEN post.task ELSE NoTask
        /\ scans' = ScansSeeDelete(scans, t.kind, p, r.result)
  /\ NoScan
  /\ UNCHANGED <<infoLoads, navCount>>

\* DeveloperTools.executeDelete, inside await scanDeveloperCaches():
\* is_developer_user settles
TaskIsDeveloperSettles(ti, cmdOk, b) ==
  /\ ti \in 1..Len(tasks)
  /\ tasks[ti].pc = "isdev"
  /\ IF cmdOk
     THEN /\ tasks' = [tasks EXCEPT ![ti].pc = "scandev", ![ti].isDeveloper = b]
          /\ UNCHANGED <<store, view>>
          /\ lastDone' = NoTask
     ELSE LET fin == Finish(tasks[ti], IsDeveloperFailed(store), view)
          IN /\ store' = fin.store
             /\ view' = fin.view
             /\ tasks' = RemoveAt(tasks, ti)
             /\ lastDone' = fin.task
  /\ lastDelete' = NoDelete
  /\ NoScan
  /\ UNCHANGED <<scans, infoLoads, navCount>>

\* ... and scan_developer_caches settles; executeDelete then runs to its end
TaskScanSettles(ti, cmdOk) ==
  /\ ti \in 1..Len(tasks)
  /\ tasks[ti].pc = "scandev"
  /\ \E res \in DeveloperScanResults :
       LET fin == Finish(tasks[ti],
                         ScanSettled(store, "developer", cmdOk, res, tasks[ti].isDeveloper),
                         view)
       IN /\ store' = fin.store
          /\ view' = fin.view
          /\ tasks' = RemoveAt(tasks, ti)
          /\ lastDone' = fin.task
  /\ lastDelete' = NoDelete
  /\ NoScan
  /\ UNCHANGED <<scans, infoLoads, navCount>>

Next ==
  \/ \E s \in NavSection : Navigate(s, MaxNav)
  \/ \E ok \in BOOLEAN : LoadSystemInfoSettles(ok)
  \/ StartScan
  \/ \E si \in 1..MaxToastId, ok \in BOOLEAN, b \in BOOLEAN : IsDeveloperSettles(si, ok, b)
  \/ \E si \in 1..MaxToastId, ok \in BOOLEAN : ScanSettles(si, ok)
  \/ \E p \in Paths : ToggleSelection(p)
  \/ \E h \in Hashes : ToggleGroup(h)
  \/ ToggleAll
  \/ \E p \in Paths : handleDeleteSingle(p)
  \/ handleDeleteSelected
  \/ handleDeleteAll
  \/ Cancel
  \/ Confirm
  \/ \E ti \in 1..MaxTasks, ok \in BOOLEAN : DeleteSettles(ti, ok)
  \/ \E ti \in 1..MaxTasks, ok \in BOOLEAN, b \in BOOLEAN : TaskIsDeveloperSettles(ti, ok, b)
  \/ \E ti \in 1..MaxTasks, ok \in BOOLEAN : TaskScanSettles(ti, ok)

Spec == Init /\ [][Next]_vars

\* A user who goes from view to view and only uses the scan and "delete all"
\* buttons: every behaviour of JourneySpec is a behaviour of the program.
JourneyNext ==
  \/ \E s \in NavSection : Navigate(s, MaxJourney)
  \/ \E ok \in BOOLEAN : LoadSystemInfoSettles(ok)
  \/ StartScan
  \/ \E si \in 1..MaxToastId, ok \in BOOLEAN, b \in BOOLEAN : IsDeveloperSettles(si, ok, b)
  \/ \E si \in 1..MaxToastId, ok \in BOOLEAN : ScanSettles(si, ok)
  \/ handleDeleteAll
  \/ Cancel
  \/ Confirm
  \/ \E ti \in 1..MaxTasks, ok \in BOOLEAN : DeleteSettles(ti, ok)
  \/ \E ti \in 1..MaxTasks, ok \in BOOLEAN, b \in BOOLEAN : TaskIsDeveloperSettles(ti, ok, b)
  \/ \E ti \in 1..MaxTasks, ok \in BOOLEAN : TaskScanSettles(ti, ok)

JourneySpec == Init /\ [][JourneyNext]_vars

(* ------------------------------- claims ------------------------------- *)

IsBatch(t) == t.kind # "none" /\ t.type # "single"

\* C1: in a batch delete ('selected' or 'all') of any view a failing item
\* does not stop the batch: while the batch runs, the paths passed to the
\* delete operation are the first i paths of the batch, in order, and when
\* it returns every path of the batch has been passed exactly once, in
\* order; a confirmed batch is never taken out of the running calls before.
C1_BatchPassesEveryPath ==
  /\ \A ti \in 1..Len(tasks) :
       IsBatch(tasks[ti]) /\ tasks[ti].pc = "delete" =>
         /\ tasks[ti].i \in 1..Len(tasks[ti].paths)
         /\ tasks[ti].issued = SubSeq(tasks[ti].paths, 1, tasks[ti].i)
  /\ IsBatch(lastDone) => lastDone.issued = lastDone.paths

\* a batch of two or more paths has returned and every one of its deletes failed
C1_Witness ==
  /\ IsBatch(lastDone)
  /\ Len(lastDone.paths) >= 2
  /\ lastDone.failed = lastDone.paths

\* C2 (as stated): a batch over n paths of which k deletes failed returns
\* with successCount = n - k and failCount = k, in every view.
C2_BatchCounts ==
  IsBatch(lastDone) =>
    /\ lastDone.successCount = Len(lastDone.paths) - Len(lastDone.failed)
    /\ lastDone.failCount = Len(lastDone.failed)

\* C3 (as stated): after a batch over the selected paths has returned, the
\* selection of the view holds exactly the paths whose delete failed.
C3_SelectionIsFailedPaths ==
  lastDone.kind # "none" /\ lastDone.type = "selected" /\ lastDone.mounted =>
    Range(view.selectedPaths) = Range(lastDone.failed)

\* C3 (amended): after a batch over the selected paths has returned, the
\* selection of the view that ran it is empty, whatever failed.
C3_SelectionEmptyAfterBatch ==
  lastDone.kind # "none" /\ lastDone.type = "selected" /\ lastDone.mounted =>
    view.selectedPaths = <<>>

\* a batch over two selected paths has returned, one deleted and one failed
C3_Witness ==
  /\ lastDone.kind # "none" /\ lastDone.type = "selected" /\ lastDone.mounted
  /\ Len(lastDone.paths) = 2
  /\ Len(lastDone.failed) = 1

DeletesInFlight == {ti \in 1..Len(tasks) : tasks[ti].pc = "delete"}

StoreAfterScan(kind, res) ==
  LET st == [InitStore EXCEPT !.toastId = 1]
  IN IF kind = "developer"
     THEN [st EXCEPT !.developerCaches = res]
     ELSE SetList(st, kind, res)

StoreInit ==
  /\ \E kind \in Views : \E res \in ScanResults(kind) : store = StoreAfterScan(kind, res)
  /\ view = InitView
  /\ tasks = <<>>
  /\ scans = <<>>
  /\ infoLoads = 0
  /\ navCount = 0
  /\ lastDelete = NoDelete
  /\ lastDone = NoTask
  /\ scanLog = NoScanLog
  /\ lastDismiss = NoDismissal
  /\ call = NoCall

\* await deleteX(path), from its call to the value it resolves to
CallDelete(kind, path, cmdOk) ==
  /\ cmdOk \/ Budget(1)
  /\ LET r == StoreDelete(kind, store, path, cmdOk)
     IN /\ store' = r.store
        /\ lastDelete' =
             [kind |-> kind, path |-> path, cmdOk |-> cmdOk, result |-> r.result,
              before |-> ListOf(store, kind), after |-> ListOf(r.store, kind),
              toasted |-> [j \in 1..(Len(r.store.toasts) - Len(store.toasts)) |->
                             r.store.toasts[Len(store.toasts) + j].type],
              invoked |-> DeleteInvokes(kind, path)]
  /\ UNCHANGED <<view, tasks, scans, infoLoads, navCount, lastDone, scanLog, lastDismiss,
               call>>

StoreNext == \E kind \in Views, path \in Paths, ok \in BOOLEAN : CallDelete(kind, path, ok)

StoreSpec == StoreInit /\ [][StoreNext]_vars

\* The paths a result list of the store holds
ListPaths(kind, list) ==
  IF kind = "duplicates"
  THEN Range(FlatMapPaths([i \in 1..Len(list) |-> list[i].files]))
  ELSE PathsOf(list)

Called == lastDelete.kind # "none"

\* C5 (as stated): after any of the five store delete operations succeeds
\* for a path, the path is no longer in the corresponding list.
C5_SuccessRemovesPath ==
  Called /\ lastDelete.result =>
    lastDelete.path \notin ListPaths(lastDelete.kind, lastDelete.after)

\* C5 (amended): after deleteCache, deleteOrphan, deleteFile or
\* deleteDuplicate succeeds for a path, the path is no longer in the
\* corresponding list; cleanDeveloperCache leaves developerCaches as it was.
C5_SuccessRemovesPathButDeveloper ==
  Called /\ lastDelete.result =>
    IF lastDelete.kind = "developer"
    THEN lastDelete.after = lastDelete.before
    ELSE lastDelete.path \notin ListPaths(lastDelete.kind, lastDelete.after)

\* a delete operation other than cleanDeveloperCache succeeded for a listed path
C5_Witness ==
  /\ Called /\ lastDelete.result
  /\ lastDelete.kind # "developer"
  /\ lastDelete.path \in ListPaths(lastDelete.kind, lastDelete.before)

\* C6: when the delete command fails, the store delete operation resolves to
\* false, leaves its list as it was and adds exactly one toast, of type error.
C6_FailureLeavesList ==
  Called /\ ~lastDelete.cmdOk =>
    /\ lastDelete.result = FALSE
    /\ lastDelete.after = lastDelete.before
    /\ lastDelete.toasted = <<"error">>

\* the command failed for a path the list holds
C6_Witness ==
  /\ Called /\ ~lastDelete.cmdOk
  /\ lastDelete.path \in ListPaths(lastDelete.kind, lastDelete.before)

\* C7 (as stated): every path the Duplicates view passes to
\* move_duplicate_to_trash is, when the call is made, at index >= 1 of a
\* group of the store's duplicates list.
C7_OnlyListedCopiesDeleted ==
  /\ \A ti \in 1..Len(tasks) : tasks[ti].strays = <<>>
  /\ lastDone.strays = <<>>

\* C8: every group of the store's duplicates list has at least 2 files,
\* after any sequence of deleteDuplicate calls on a scan result.
C8_GroupsHaveTwoFiles ==
  \A gi \in 1..Len(store.duplicates) : Len(store.duplicates[gi].files) >= 2

\* deleteDuplicate has taken a file out of a group of two and dropped the group
C8_Witness ==
  /\ Called /\ lastDelete.kind = "duplicates" /\ lastDelete.result
  /\ Len(lastDelete.after) < Len(lastDelete.before)

\* C9 (as stated): every group of the store's duplicates list has
\* total_wasted = file_size * (len(files) - 1).
C9_TotalWastedMatchesFiles ==
  \A gi \in 1..Len(store.duplicates) :
    store.duplicates[gi].total_wasted =
      store.duplicates[gi].file_size * (Len(store.duplicates[gi].files) - 1)

\* C10: a store delete operation called for a path its list does not hold
\* leaves the list as it was and resolves to true exactly when the command
\* succeeded, in all five operations.
C10_AbsentPathLeavesList ==
  Called /\ lastDelete.path \notin ListPaths(lastDelete.kind, lastDelete.before) =>
    /\ lastDelete.after = lastDelete.before
    /\ lastDelete.result = lastDelete.cmdOk

\* the command succeeded for a path that a non-empty list does not hold
C10_Witness ==
  /\ Called /\ lastDelete.cmdOk
  /\ lastDelete.before # <<>>
  /\ lastDelete.path \notin ListPaths(lastDelete.kind, lastDelete.before)

(* ------------------------- progress reports (C11) --------------------- *)

\* The label of a report names the path: the entry's name or the path itself;
\* Duplicates shows '' for a selected path its groups no longer hold.
Names(t, item, p) ==
  \/ item = <<"name", p>>
  \/ item = <<"path", p>> /\ t.kind # "duplicates"
  \/ item = <<>> /\ t.kind = "duplicates" /\ t.type = "selected"

FilledStore ==
  [InitStore EXCEPT
     !.caches = [j \in 1..NPaths |-> CacheEntry(j)],
     !.developerCaches = [p \in Paths |-> DeveloperCache(p, TRUE)],
     !.isDeveloper = TRUE,
     !.orphanFiles = [j \in 1..NPaths |-> PlainEntry(j)],
     !.largeFiles = [j \in 1..NPaths |-> PlainEntry(j)],
     !.duplicates = DuplicateScanResult(Paths),
     !.toastId = 5]

ScanInit ==
  /\ store \in {InitStore, FilledStore}
  /\ view = InitView
  /\ tasks = <<>>
  /\ scans = <<>>
  /\ infoLoads = 0
  /\ navCount = 0
  /\ lastDelete = NoDelete
  /\ lastDone = NoTask
  /\ scanLog = [NoScanLog EXCEPT !.base = store]
  /\ lastDismiss = NoDismissal
  /\ call = NoCall

\* The record of the scan operations the last step started: the outcomes
\* start afresh when no scan was in flight.
Started(kinds) ==
  [last |-> [NoScanStep EXCEPT !.step = "start", !.before = store],
   base |-> IF scans = <<>> THEN store ELSE scanLog.base,
   outcome |-> [k \in Views |->
                  IF k \in kinds THEN [NoOutcome EXCEPT !.state = "running"]
                  ELSE IF scans = <<>> THEN NoOutcome
                  ELSE scanLog.outcome[k]]]

\* The record of a scan operation that returned in this step.
Settled(sc, step, cmdOk, res) ==
  [last |-> [kind |-> sc.kind, step |-> step, cmdOk |-> cmdOk, res |-> res,
             isDeveloper |-> sc.isDeveloper, invoked |-> sc.invoked,
             before |-> store, promise |-> ScanPromise(cmdOk)],
   base |-> scanLog.base,
   outcome |-> [scanLog.outcome EXCEPT ![sc.kind] =
                  [state |-> IF cmdOk THEN "ok" ELSE "failed", res |-> res,
                   isDeveloper |-> cmdOk /\ sc.isDeveloper]]]

\* Toasts the scans in flight will add, with those added already.
ScanToasts == Len(store.toasts) + Len(scans)

\* A scan operation of the store is called (a scan button, enabled while the
\* kind is not loading) and runs to its first await.
CallScan(kind) ==
  /\ ~IsLoading(store, kind)
  /\ ScanToasts + 1 <= MaxScanToasts
  /\ store' = SetLoading(store, kind, TRUE)
  /\ scans' = Append(scans, NewScan(kind))
  /\ scanLog' = Started({kind})
  /\ NoRun

QuickOrder == <<"cache", "developer", "leftovers", "large-files", "duplicates">>

isScanning(st) == \E k \in Views : IsLoading(st, k)

\* Dashboard.handleQuickScan: Promise.all over the five scan operations, each
\* of which runs to its first await as the array is built.
handleQuickScan ==
  /\ store.currentSection = "dashboard"
  /\ ~isScanning(store)
  /\ ScanToasts + Len(QuickOrder) <= MaxQuickToasts
  /\ store' = [store EXCEPT !.isLoadingCaches = TRUE,
                            !.isLoadingDeveloperCaches = TRUE,
                            !.isLoadingOrphans = TRUE,
                            !.isLoadingLargeFiles = TRUE,
                            !.isLoadingDuplicates = TRUE]
  /\ scans' = scans \o [j \in 1..Len(QuickOrder) |-> NewScan(QuickOrder[j])]
  /\ scanLog' = Started(Views)
  /\ NoRun

\* is_developer_user settles inside scanDeveloperCaches
CallIsDeveloperSettles(si, cmdOk, b) ==
  /\ si \in 1..Len(scans)
  /\ scans[si].pc = "isdev"
  /\ IF cmdOk
     THEN /\ scans' = [scans EXCEPT ![si].pc = "scan", ![si].isDeveloper = b,
                                    ![si].invoked = Append(@, ScanCommand("developer"))]
          /\ store' = store
          /\ scanLog' = [scanLog EXCEPT !.last =
                           [kind |-> "developer", step |-> "isdev", cmdOk |-> TRUE,
                            res |-> <<>>, isDeveloper |-> b,
                            invoked |-> scans'[si].invoked, before |-> store,
                            promise |-> "pending"]]
     ELSE /\ scans' = RemoveAt(scans, si)
          /\ store' = IsDeveloperFailed(store)
          /\ scanLog' = Settled(scans[si], "isdev", FALSE, <<>>)
  /\ NoRun

\* The scan command of a scan operation settles.
CallScanSettles(si, cmdOk) ==
  /\ si \in 1..Len(scans)
  /\ scans[si].pc = "scan"
  /\ \E res \in ScanResults(scans[si].kind) :
       /\ store' = ScanSettled(store, scans[si].kind, cmdOk, res, scans[si].isDeveloper)
       /\ scanLog' = Settled(scans[si], "scan", cmdOk, IF cmdOk THEN res ELSE <<>>)
  /\ scans' = RemoveAt(scans, si)
  /\ NoRun

\* The scan operations called one by one, as the scan buttons of the views do.
ScanNext ==
  \/ \E kind \in Views : CallScan(kind)
  \/ \E si \in 1..MaxScanToasts, ok \in BOOLEAN, b \in BOOLEAN : CallIsDeveloperSettles(si, ok, b)
  \/ \E si \in 1..MaxScanToasts, ok \in BOOLEAN : CallScanSettles(si, ok)

ScanSpec == ScanInit /\ [][ScanNext]_vars

\* The Dashboard with its Quick Scan button.
QuickNext ==
  \/ handleQuickScan
  \/ \E si \in 1..Len(QuickOrder), ok \in BOOLEAN, b \in BOOLEAN : CallIsDeveloperSettles(si, ok, b)
  \/ \E si \in 1..Len(QuickOrder), ok \in BOOLEAN : CallScanSettles(si, ok)

QuickSpec == ScanInit /\ [][QuickNext]_vars

\* A step in which a command of the scan of this kind settles.
SettlesOf(kind) ==
  \E si \in 1..MaxScanToasts, ok \in BOOLEAN, b \in BOOLEAN :
    /\ si <= Len(scans)
    /\ scans[si].kind = kind
    /\ (CallIsDeveloperSettles(si, ok, b) \/ CallScanSettles(si, ok))

\* Every engine command answers or fails in the end: the promise invoke()
\* returned is settled, and the operation awaiting it resumes.
FairScanSpec == ScanSpec /\ \A kind \in Views : WF_vars(SettlesOf(kind))

(* ------------------------- concurrent scans (C12) --------------------- *)

ToastIds(st) == {st.toasts[j].id : j \in 1..Len(st.toasts)}

ToastsOfType(st, type) == {j \in 1..Len(st.toasts) : st.toasts[j].type = type}

Outcomes(state) == {k \in Views : scanLog.outcome[k].state = state}

\* C12: scans of different kinds that run concurrently do not interfere.  At
\* every point of every interleaving of their completions, a kind whose scan
\* is still running has its loading flag set and its list untouched, and a
\* kind whose scan has returned has its flag clear and its list equal to the
\* returned result (the list it had before, if the command failed), as if it
\* had run alone; every scan that has returned has added its toast, of type
\* success or error as its command went.
C12_ConcurrentScansIndependent ==
  /\ \A k \in Outcomes("running") :
       /\ IsLoading(store, k)
       /\ ListOf(store, k) = ListOf(scanLog.base, k)
  /\ \A k \in Outcomes("ok") :
       /\ ~IsLoading(store, k)
       /\ ListOf(store, k) = scanLog.outcome[k].res
  /\ \A k \in Outcomes("failed") :
       /\ ~IsLoading(store, k)
       /\ ListOf(store, k) = ListOf(scanLog.base, k)
  /\ store.isDeveloper = IF "developer" \in Outcomes("ok")
                         THEN scanLog.outcome["developer"].isDeveloper
                         ELSE scanLog.base.isDeveloper
  /\ Len(store.toasts) =
       Len(scanLog.base.toasts) + Cardinality(Outcomes("ok") \cup Outcomes("failed"))
  /\ Cardinality(ToastIds(store)) = Len(store.toasts)
  /\ Cardinality(ToastsOfType(store, "success")) = Cardinality(Outcomes("ok"))
  /\ Cardinality(ToastsOfType(store, "error")) = Cardinality(Outcomes("failed"))

\* A Quick Scan whose five scans have all returned, some failed, and the one
\* started first returned last.
C12_Witness ==
  /\ scans = <<>>
  /\ Outcomes("ok") \cup Outcomes("failed") = Views
  /\ Outcomes("failed") = {"developer", "duplicates"}
  /\ scanLog.last.kind = "cache"
  /\ ListOf(store, "leftovers") # ListOf(scanLog.base, "leftovers")

(* --------------------------- one scan (C13..C15) ---------------------- *)

ScansOf(kind) == {si \in 1..Len(scans) : scans[si].kind = kind}

ScanReturned == scanLog.last.step \in {"isdev", "scan"} /\ ScansOf(scanLog.last.kind) = {}

\* C13: for each scan kind, run on its own, the loading flag is true exactly
\* while the scan is in flight: it is set when the scan has issued its first
\* command and stays set while a command of the scan runs; it is false in the
\* state in which the scan returns, whether its command succeeded or failed;
\* and a flag that is set is cleared in the end.
C13_LoadingFlagFollowsScan ==
  /\ [](\A k \in Views :
          /\ IsLoading(store, k) <=> ScansOf(k) # {}
          /\ \A si \in ScansOf(k) : Len(scans[si].invoked) >= 1)
  /\ [](ScanReturned =>
          /\ IsLoading(scanLog.last.before, scanLog.last.kind)
          /\ ~IsLoading(store, scanLog.last.kind))
  /\ \A k \in Views : (IsLoading(store, k) ~> ~IsLoading(store, k))

\* A scan whose command failed has returned and its flag is clear.
C13_Witness ==
  /\ ScanReturned
  /\ ~scanLog.last.cmdOk
  /\ IsLoading(scanLog.last.before, scanLog.last.kind)
  /\ ~IsLoading(store, scanLog.last.kind)

\* The toasts the last scan step added.
ScanToasted ==
  [j \in 1..(Len(store.toasts) - Len(scanLog.last.before.toasts)) |->
     store.toasts[Len(scanLog.last.before.toasts) + j]]

\* C14: when the scan command of a scan operation succeeds, the store's list
\* of that kind is exactly the returned result, whatever it held before, and
\* exactly one toast is added, of type success.
C14_SuccessReplacesList ==
  ScanReturned /\ scanLog.last.cmdOk =>
    /\ ListOf(store, scanLog.last.kind) = scanLog.last.res
    /\ SubSeq(store.toasts, 1, Len(scanLog.last.before.toasts)) = scanLog.last.before.toasts
    /\ Len(ScanToasted) = 1
    /\ ScanToasted[1].type = "success"
    /\ ScanToasted[1].id \notin ToastIds(scanLog.last.before)

\* A scan over a filled list returned fewer entries than the list held.
C14_Witness ==
  /\ ScanReturned /\ scanLog.last.cmdOk
  /\ scanLog.last.kind = "leftovers"
  /\ Len(ListOf(scanLog.last.before, "leftovers")) = NPaths
  /\ Len(scanLog.last.res) = 2
  /\ store.orphanFiles = scanLog.last.res

\* C15: when a command of a scan operation fails, the store's list of that
\* kind is as it was, exactly one toast is added, of type error, and the
\* promise of the operation is fulfilled, not rejected.
C15_FailureKeepsList ==
  ScanReturned /\ ~scanLog.last.cmdOk =>
    /\ ListOf(store, scanLog.last.kind) = ListOf(scanLog.last.before, scanLog.last.kind)
    /\ SubSeq(store.toasts, 1, Len(scanLog.last.before.toasts)) = scanLog.last.before.toasts
    /\ Len(ScanToasted) = 1
    /\ ScanToasted[1].type = "error"
    /\ scanLog.last.promise = "fulfilled"

\* A failed scan over a filled list.
C15_Witness ==
  /\ ScanReturned /\ ~scanLog.last.cmdOk
  /\ scanLog.last.step = "scan"
  /\ Len(ListOf(store, scanLog.last.kind)) = NPaths
  /\ Len(ScanToasted) = 1

(* ------------------------- large app data (C16) ----------------------- *)

\* C16: the store holds a list largeAppData and offers the operations
\* scanLargeAppData, which fills it, and deleteLargeAppData, which removes
\* an entry from it.
C16_StoreOffersLargeAppData ==
  /\ "largeAppData" \in DOMAIN store
  /\ "scanLargeAppData" \in StoreOperations
  /\ "deleteLargeAppData" \in StoreOperations

(* ----------------------- delete commands (C17) ------------------------ *)

\* The store delete operation of each list.
DeleteOperation(kind) ==
  CASE kind = "cache" -> "deleteCache"
    [] kind = "developer" -> "cleanDeveloperCache"
    [] kind = "leftovers" -> "deleteOrphan"
    [] kind = "large-files" -> "deleteFile"
    [] kind = "duplicates" -> "deleteDuplicate"

\* The command the claim names for each store delete operation.
ClaimedCommand(op) ==
  CASE op = "deleteCache" -> "delete_cache"
    [] op = "cleanDeveloperCache" -> "clean_developer_cache"
    [] op = "deleteOrphan" -> "delete_orphan"
    [] op = "deleteFile" -> "move_file_to_trash"
    [] op = "deleteDuplicate" -> "move_duplicate_to_trash"

DirectDeleteCommands == {"delete_cache", "clean_developer_cache", "delete_orphan"}

\* C17: each store delete operation invokes exactly one engine command, the
\* one the claim names for it, with the path it was given, whether or not the
\* command succeeds; deleteFile and deleteDuplicate invoke no command that
\* deletes directly.
C17_OneCommandPerDelete ==
  Called =>
    /\ Len(lastDelete.invoked) = 1
    /\ lastDelete.invoked[1].cmd = ClaimedCommand(DeleteOperation(lastDelete.kind))
    /\ lastDelete.invoked[1].path = lastDelete.path
    /\ lastDelete.kind \in {"large-files", "duplicates"} =>
         lastDelete.invoked[1].cmd \notin DirectDeleteCommands

\* deleteFile was called for a path and its command failed.
C17_Witness ==
  /\ Called
  /\ lastDelete.kind = "large-files"
  /\ ~lastDelete.cmdOk
  /\ lastDelete.invoked = <<[cmd |-> "move_file_to_trash", path |-> lastDelete.path]>>

(* ---------------------- scanDeveloperCaches (C18) --------------------- *)

DeveloperStep == scanLog.last.kind = "developer" /\ scanLog.last.step \in {"isdev", "scan"}

DeveloperFields(st) == <<st.isDeveloper, st.developerCaches>>

\* C18: scanDeveloperCaches sets isDeveloper and developerCaches in one
\* update, from the answers of is_developer_user and scan_developer_caches:
\* neither field changes when is_developer_user has answered and
\* scan_developer_caches has not yet; if either command fails, neither field
\* changes and exactly one toast is added, of type error; and
\* scan_developer_caches is invoked only after is_developer_user succeeded.
C18_DeveloperFieldsSetTogether ==
  DeveloperStep =>
    /\ scanLog.last.step = "scan" /\ scanLog.last.cmdOk =>
         /\ DeveloperFields(store) = <<scanLog.last.isDeveloper, scanLog.last.res>>
         /\ scanLog.last.invoked = <<"is_developer_user", "scan_developer_caches">>
    /\ scanLog.last.step = "isdev" /\ scanLog.last.cmdOk =>
         /\ DeveloperFields(store) = DeveloperFields(scanLog.last.before)
         /\ store.toasts = scanLog.last.before.toasts
         /\ IsLoading(store, "developer")
    /\ ~scanLog.last.cmdOk =>
         /\ DeveloperFields(store) = DeveloperFields(scanLog.last.before)
         /\ Len(ScanToasted) = 1
         /\ ScanToasted[1].type = "error"
    /\ scanLog.last.step = "isdev" /\ ~scanLog.last.cmdOk =>
         scanLog.last.invoked = <<"is_developer_user">>

\* is_developer_user failed for a store that held developer caches.
C18_Witness ==
  /\ DeveloperStep
  /\ scanLog.last.step = "isdev"
  /\ ~scanLog.last.cmdOk
  /\ store.isDeveloper
  /\ Len(store.developerCaches) = NPaths
  /\ ScansOf("developer") = {}

(* ------------------------------ toasts -------------------------------- *)

\* The types of the toasts the store operations add.
StoreToastTypes == {"success", "error"}

ToastInit ==
  /\ store = InitStore
  /\ view = InitView
  /\ tasks = <<>>
  /\ scans = <<>>
  /\ infoLoads = 0
  /\ navCount = 0
  /\ lastDelete = NoDelete
  /\ lastDone = NoTask
  /\ scanLog = NoScanLog
  /\ lastDismiss = NoDismissal
  /\ call = NoCall

\* Nothing but the store changes in a step of the toast operations.
ToastFrame ==
  /\ UNCHANGED <<view, tasks, scans, infoLoads, navCount, scanLog, call>>
  /\ lastDelete' = NoDelete
  /\ lastDone' = NoTask

\* addToast(type, title, message)
CallAddToast(type) ==
  /\ store.toastId < MaxToasts
  /\ store.now + AutoDismissSeconds <= MaxClock
  /\ store' = addToast(store, type)
  /\ lastDismiss' = NoDismissal
  /\ ToastFrame

\* dismissToast(id), from the close button of a toast or called directly
CallDismissToast(id) ==
  /\ store' = dismissToast(store, id)
  /\ lastDismiss' = [by |-> "call", id |-> id, before |-> store.toasts, armed |-> 0]
  /\ ToastFrame

\* The callback of setTimeout runs when its delay has passed:
\* get().dismissToast(id)
TimerFires(id) ==
  \E tm \in store.timers :
    /\ tm.id = id
    /\ tm.due <= store.now
    /\ store' = [dismissToast(store, id) EXCEPT !.timers = @ \ {tm}]
    /\ lastDismiss' = [by |-> "timer", id |-> id, before |-> store.toasts,
                       armed |-> tm.armed]
    /\ ToastFrame

\* A second passes; a timer that is due runs first.
Tick ==
  /\ store.now < MaxClock
  /\ \A tm \in store.timers : tm.due > store.now
  /\ store' = [store EXCEPT !.now = @ + 1]
  /\ lastDismiss' = NoDismissal
  /\ ToastFrame

ToastNext ==
  \/ \E type \in StoreToastTypes : CallAddToast(type)
  \/ \E id \in 1..MaxToasts : CallDismissToast(id)
  \/ \E id \in 1..MaxToasts : TimerFires(id)
  \/ Tick

ToastSpec == ToastInit /\ [][ToastNext]_vars

\* Time passes and the event loop runs the callbacks of the timers that are
\* due.
FairToastSpec ==
  ToastSpec /\ WF_vars(Tick) /\ \A id \in 1..MaxToasts : WF_vars(TimerFires(id))

\* C19: a toast on display has its auto-dismiss timer pending and is never on
\* display later than 5 seconds after it was added; the timer runs exactly 5
\* seconds after the toast was added and the toast is off the list then; hence
\* every toast leaves the list, and once no toast is added any more the list
\* becomes empty and stays empty.
C19_ToastsAutoDismissed ==
  /\ [](\A j \in 1..Len(store.toasts) :
          \E tm \in store.timers :
            /\ tm.id = store.toasts[j].id
            /\ store.now <= tm.armed + AutoDismissSeconds)
  /\ [](lastDismiss.by = "timer" =>
          /\ store.now = lastDismiss.armed + AutoDismissSeconds
          /\ lastDismiss.id \notin ToastIds(store))
  /\ \A id \in 1..MaxToasts : (id \in ToastIds(store)) ~> (id \notin ToastIds(store))
  /\ <>[](store.toasts = <<>>)

\* The timer of a toast removed it while a younger toast stays on display.
C19_Witness ==
  /\ lastDismiss.by = "timer"
  /\ lastDismiss.id \in {lastDismiss.before[j].id : j \in 1..Len(lastDismiss.before)}
  /\ store.now = AutoDismissSeconds
  /\ Len(store.toasts) >= 1

\* C20: dismissToast(id) removes the toast with that id and nothing else: the
\* other toasts stay, in their order; if no toast has the id, the list is as
\* it was; and the ids of the toasts on the list are pairwise distinct.
C20_DismissRemovesOnlyThatToast ==
  /\ Cardinality(ToastIds(store)) = Len(store.toasts)
  /\ lastDismiss.by # "none" =>
       LET b == lastDismiss.before
           at == {j \in 1..Len(b) : b[j].id = lastDismiss.id}
       IN /\ Cardinality(at) <= 1
          /\ at = {} => store.toasts = b
          /\ \A j \in at : store.toasts = SubSeq(b, 1, j - 1) \o SubSeq(b, j + 1, Len(b))

\* The timer of a toast dismissed by hand runs while two other toasts are on
\* display.
C20_Witness ==
  /\ lastDismiss.by = "timer"
  /\ Len(lastDismiss.before) = 2
  /\ lastDismiss.id \notin {lastDismiss.before[j].id : j \in 1..Len(lastDismiss.before)}
  /\ store.toasts = lastDismiss.before

(* --------------------------- system info (C21) ------------------------ *)

\* The answers of get_system_info.
SystemInfos == {"info", "info-later"}

InfoInit ==
  /\ store \in {InitStore, [InitStore EXCEPT !.systemInfo = "info"]}
  /\ view = InitView
  /\ tasks = <<>>
  /\ scans = <<>>
  /\ infoLoads = 0
  /\ navCount = 0
  /\ lastDelete = NoDelete
  /\ lastDone = NoTask
  /\ scanLog = NoScanLog
  /\ lastDismiss = NoDismissal
  /\ call = NoCall

\* loadSystemInfo touches neither a view nor a delete run.
InfoFrame ==
  /\ lastDelete' = NoDelete /\ lastDone' = NoTask /\ lastDismiss' = NoDismissal
  /\ UNCHANGED <<view, tasks, navCount, call>>

\* loadSystemInfo() up to its await
CallLoadSystemInfo ==
  /\ Len(store.toasts) + infoLoads < MaxInfoLoads
  /\ infoLoads' = infoLoads + 1
  /\ scanLog' = [scanLog EXCEPT !.last =
                   [NoScanStep EXCEPT !.kind = "system-info", !.step = "start",
                                      !.invoked = <<"get_system_info">>,
                                      !.before = store]]
  /\ UNCHANGED <<store, scans>>
  /\ InfoFrame

\* get_system_info settles and loadSystemInfo returns
CallLoadSystemInfoSettles(cmdOk, info) ==
  /\ infoLoads > 0
  /\ infoLoads' = infoLoads - 1
  /\ store' = loadSystemInfoWith(store, cmdOk, info)
  /\ scanLog' = [scanLog EXCEPT !.last =
                   [kind |-> "system-info", step |-> "load", cmdOk |-> cmdOk,
                    res |-> IF cmdOk THEN <<info>> ELSE <<>>, isDeveloper |-> FALSE,
                    invoked |-> <<"get_system_info">>, before |-> store,
                    promise |-> LoadPromise(cmdOk)]]
  /\ UNCHANGED scans
  /\ InfoFrame

InfoNext ==
  \/ CallLoadSystemInfo
  \/ \E ok \in BOOLEAN, info \in SystemInfos : CallLoadSystemInfoSettles(ok, info)

InfoSpec == InfoInit /\ [][InfoNext]_vars

InfoLoaded == scanLog.last.kind = "system-info" /\ scanLog.last.step = "load"

\* C21: when get_system_info succeeds, loadSystemInfo sets systemInfo to the
\* value returned and adds no toast; when it fails, systemInfo keeps the
\* value it had, exactly one toast is added, of type error, and the promise
\* of loadSystemInfo is fulfilled; nothing else of the store changes.
C21_SystemInfoLoaded ==
  InfoLoaded =>
    /\ scanLog.last.cmdOk =>
         /\ <<store.systemInfo>> = scanLog.last.res
         /\ store = [scanLog.last.before EXCEPT !.systemInfo = store.systemInfo]
    /\ ~scanLog.last.cmdOk =>
         /\ store.systemInfo = scanLog.last.before.systemInfo
         /\ Len(ScanToasted) = 1
         /\ ScanToasted[1].type = "error"
         /\ SubSeq(store.toasts, 1, Len(scanLog.last.before.toasts)) =
              scanLog.last.before.toasts
         /\ scanLog.last.promise = "fulfilled"
    /\ scanLog.last.invoked = <<"get_system_info">>

\* get_system_info failed while the store held an earlier answer.
C21_Witness ==
  /\ InfoLoaded
  /\ ~scanLog.last.cmdOk
  /\ store.systemInfo = "info-later"
  /\ Len(store.toasts) = 2

\* ---------------------------------------------------------------------------
\* Pure functions: the engine's scanners as the specification describes them
\* and the formatters of useFormatters.ts.  A call is drawn with its
\* arguments; the step of the function fills in what it returns.
\* ---------------------------------------------------------------------------

\* Everything but the call is as after construction.
PureRest ==
  /\ store = InitStore
  /\ view = InitView
  /\ tasks = <<>>
  /\ scans = <<>>
  /\ infoLoads = 0
  /\ navCount = 0
  /\ lastDelete = NoDelete
  /\ lastDone = NoTask
  /\ scanLog = NoScanLog
  /\ lastDismiss = NoDismissal

PureFrame ==
  UNCHANGED <<store, view, tasks, scans, infoLoads, navCount, lastDelete, lastDone,
              scanLog, lastDismiss>>

Pending(fn, args) == [fn |-> fn, done |-> FALSE, args |-> args]
Returned(c, result) == [fn |-> c.fn, done |-> TRUE, args |-> c.args, result |-> result]
Returns(fn) == call.fn = fn /\ call.done

\* Sequences of at most n elements of S
SeqUpTo(S, n) == UNION {[1..m -> S] : m \in 0..n}

\* --- Cache classifier (scan_all_caches) ---

MaxChildren == 2

\* The pattern families, in the priority the classifier checks them
CachePatternPriority == <<"Developer", "Browser", "System", "Application">>
CachePatterns == Range(CachePatternPriority)

\* A top-level child of a cache root: the pattern families its path matches
\* and whether it is on the protected-system-cache allowlist.
CacheChildren == [matches : SUBSET CachePatterns, protected : BOOLEAN]

\* The first family of the priority list that the path matches, else Unknown
ClassifyCache(matches) ==
  LET hit == {j \in 1..Len(CachePatternPriority) : CachePatternPriority[j] \in matches}
  IN IF hit = {} THEN "Unknown"
     ELSE CachePatternPriority[CHOOSE j \in hit : \A o \in hit : j <= o]

IsSafeToDeleteAllowlistOnly(child) == ~child.protected

\* true by default; false for an allowlisted entry, and never true for an
\* entry classified System
IsSafeToDelete(child) ==
  ~child.protected /\ ClassifyCache(child.matches) # "System"

scan_all_caches(children) ==
  [j \in 1..Len(children) |->
     [path |-> j,
      cache_type |-> ClassifyCache(children[j].matches),
      is_developer_related |-> ClassifyCache(children[j].matches) = "Developer",
      is_safe_to_delete |-> IsSafeToDelete(children[j])]]

DrawCacheScan ==
  \E children \in SeqUpTo(CacheChildren, MaxChildren) :
    call = Pending("scan_all_caches", children)

Call_scan_all_caches ==
  /\ call.fn = "scan_all_caches" /\ ~call.done
  /\ call' = Returned(call, scan_all_caches(call.args))
  /\ PureFrame

\* C22: in every result of scan_all_caches, no entry whose cache_type is
\* System has is_safe_to_delete = true.
C22_SystemCacheNeverSafe ==
  Returns("scan_all_caches") =>
    \A j \in 1..Len(call.result) :
      call.result[j].cache_type = "System" => ~call.result[j].is_safe_to_delete

\* A scan reported a System entry that is not on the allowlist next to a
\* safe entry of another type.
C22_Witness ==
  /\ Returns("scan_all_caches")
  /\ \E j \in 1..Len(call.result) :
       /\ call.result[j].cache_type = "System"
       /\ ~call.args[j].protected
       /\ ~call.result[j].is_safe_to_delete
  /\ \E j \in 1..Len(call.result) :
       call.result[j].cache_type # "System" /\ call.result[j].is_safe_to_delete

\* --- Duplicate finder (scan_common_duplicates) ---

MaxFiles == 4

\* File contents; a content determines the size of the file, in MB.
Contents == {"X", "Y", "Z"}
SizeMbOf(c) == IF c = "Z" THEN 50 ELSE 200
\* The thresholds the store passes by default (scanDuplicates, scanLargeFiles)
Thresholds == {1, 100}

\* The full-content digest: equal exactly for equal contents
Digest(c) == <<"digest", c>>

\* The walk: the files in the order they are discovered, each with its content
Walks == SeqUpTo(Contents, MaxFiles)

\* Phase 1: files of at least the threshold, bucketed by exact size;
\* singleton buckets are discarded.
Bucket(files, min, j) ==
  {o \in 1..Len(files) :
     SizeMbOf(files[o]) >= min /\ SizeMbOf(files[o]) = SizeMbOf(files[j])}
Bucketed(files, min) ==
  {j \in 1..Len(files) :
     SizeMbOf(files[j]) >= min /\ Cardinality(Bucket(files, min, j)) >= 2}

DigestGroupBySizeOnly(files, min, j) == Bucket(files, min, j)

\* Phase 2: the files of a bucket with the digest of file j
DigestGroup(files, min, j) ==
  {o \in Bucket(files, min, j) : Digest(files[o]) = Digest(files[j])}

Least(S) == CHOOSE j \in S : \A o \in S : j <= o

\* One group per digest with at least two files, its files in discovery
\* order; the groups in the order of their first files.
scan_common_duplicates(files, min) ==
  LET firsts == {j \in Bucketed(files, min) :
                   /\ Cardinality(DigestGroup(files, min, j)) >= 2
                   /\ j = Least(DigestGroup(files, min, j))}
      order == SortedSeq(firsts)
  IN [g \in 1..Len(order) |->
        LET members == SortedSeq(DigestGroup(files, min, order[g]))
        IN [hash |-> Digest(files[order[g]]),
            file_size |-> SizeMbOf(files[order[g]]),
            files |-> members,
            total_wasted |-> SizeMbOf(files[order[g]]) * (Len(members) - 1)]]

DrawDuplicateScan ==
  \E files \in Walks, min \in Thresholds :
    call = Pending("scan_common_duplicates", [files |-> files, min_size_mb |-> min])

Call_scan_common_duplicates ==
  /\ call.fn = "scan_common_duplicates" /\ ~call.done
  /\ call' = Returned(call, scan_common_duplicates(call.args.files, call.args.min_size_mb))
  /\ PureFrame

\* The sets of two or more files of at least the threshold size that have
\* the same size and the same content
DuplicateSets(files, min) ==
  LET same(j) == {o \in 1..Len(files) :
                    /\ SizeMbOf(files[o]) >= min
                    /\ SizeMbOf(files[o]) = SizeMbOf(files[j])
                    /\ files[o] = files[j]}
  IN {same(j) : j \in {o \in 1..Len(files) :
                         SizeMbOf(files[o]) >= min /\ Cardinality(same(o)) >= 2}}

MaxDigits == 6

units == <<"B", "KB", "MB", "GB", "TB">>
formatBytes_k == 1024

\* A byte count is written in base k, most significant digit first, without
\* leading zeros; 0 is the empty sequence.  The digits tried:
Digits1024 == {0, 1, 100, 512, formatBytes_k - 1}
\* Number.MAX_SAFE_INTEGER is 2^53 - 1 = 8 * 1024^5 - 1: an integer byte
\* count has at most six digits, the first of six below 8.
ByteCounts ==
  {d \in SeqUpTo(Digits1024, MaxDigits) :
     /\ d # <<>> => d[1] # 0
     /\ Len(d) <= 6
     /\ Len(d) = 6 => d[1] < 8}

\* Math.floor(Math.log(bytes) / Math.log(k)): the position of the leading
\* digit (the quotient of the two logarithms, computed in doubles, has this
\* floor for every byte count below 1024^5 - 3).
FloorLog(bytes) == Len(bytes) - 1

\* units[i]; an index outside the array reads undefined, which the template
\* string prints as "undefined"
UnitAt(i) == IF i + 1 \in DOMAIN units THEN units[i + 1] ELSE "undefined"

RECURSIVE FractionAtLeast(_, _, _)
\* Whether the base-k fraction 0.lower is at least num / den
FractionAtLeast(lower, num, den) ==
  IF num <= 0 THEN TRUE
  ELSE IF lower = <<>> \/ num >= den THEN FALSE
  ELSE FractionAtLeast(Tail(lower), formatBytes_k * num - lower[1] * den, den)

\* (bytes / Math.pow(k, i)).toFixed(2), in hundredths: the quotient is exact
\* (a division by a power of two), and toFixed rounds it to the nearest
\* hundredth, a tie upwards.
ToFixed2(bytes) ==
  LET scaled == bytes[2] * 100 + (formatBytes_k \div 2)
      carry == IF FractionAtLeast(SubSeq(bytes, 3, Len(bytes)),
                                  formatBytes_k - (scaled % formatBytes_k), 100)
               THEN 1 ELSE 0
  IN bytes[1] * 100 + (scaled \div formatBytes_k) + carry

\* The text `${number} ${unit}`: the number as its whole part and, when it
\* has decimals, its two decimal digits
formatBytes(bytes) ==
  IF bytes = <<>> THEN [whole |-> 0, decimals |-> 0, frac |-> 0, unit |-> "B"]
  ELSE LET i == FloorLog(bytes)
       IN IF i > 0
          THEN [whole |-> ToFixed2(bytes) \div 100, decimals |-> 2,
                frac |-> ToFixed2(bytes) % 100, unit |-> UnitAt(i)]
          ELSE [whole |-> bytes[1], decimals |-> 0, frac |-> 0, unit |-> UnitAt(i)]

DrawFormatBytes == \E bytes \in ByteCounts : call = Pending("formatBytes", bytes)

Call_formatBytes ==
  /\ call.fn = "formatBytes" /\ ~call.done
  /\ call' = Returned(call, formatBytes(call.args))
  /\ PureFrame

\* C25: for every non-negative integer byte count formatBytes returns '0 B'
\* for 0 and otherwise the value scaled by 1024^i with the unit units[i],
\* i the largest index with 1024^i <= bytes; the unit is always one of B,
\* KB, MB, GB, TB; the number has no decimals for B and two otherwise.
C25_FormatBytesUnitIsOneOfFive ==
  Returns("formatBytes") =>
    LET bytes == call.args
        r == call.result
    IN IF bytes = <<>>
       THEN r = [whole |-> 0, decimals |-> 0, frac |-> 0, unit |-> "B"]
       ELSE /\ r.unit \in Range(units)
            /\ r.unit = units[Len(bytes)]
            /\ r.decimals = IF Len(bytes) = 1 THEN 0 ELSE 2
            /\ r.whole * 100 + r.frac >= bytes[1] * 100
            /\ r.whole * 100 + r.frac <= bytes[1] * 100 + 100
            /\ Len(bytes) = 1 => r.whole = bytes[1]

\* --- formatTimeAgo (useFormatters.ts) ---

\* Date.now() / 1000 at the call, in whole seconds: the timestamps are whole
\* seconds, so the milliseconds of the clock change neither a comparison of
\* diff with a whole number nor a floor.
NowSeconds == 1800000000

Minute == 60
Hour == 3600
Day == 86400
Month == 2592000
Year == 31536000
AgeLimits == {Minute, Hour, Day, Month, Year}
\* The ages tried: around every limit, twice every limit, and the future
Ages == {-5, 0, 30} \cup UNION {{l - 1, l, l + 1, 2 * l} : l \in AgeLimits}
\* number | null
Timestamps ==
  {[null |-> TRUE, value |-> 0]} \cup
  {[null |-> FALSE, value |-> v] : v \in {0} \cup {NowSeconds - a : a \in Ages}}

Ago(n, text) == [n |-> n, text |-> text]

\* !timestamp: true for null and for the number 0
NotTimestamp(timestamp) == timestamp.null \/ timestamp.value = 0

formatTimeAgo(timestamp, now) ==
  IF NotTimestamp(timestamp) THEN Ago(0, "Unknown")
  ELSE LET diff == now - timestamp.value
       IN IF diff < Minute THEN Ago(0, "Just now")
          ELSE IF diff < Hour THEN Ago(diff \div Minute, "min ago")
          ELSE IF diff < Day THEN Ago(diff \div Hour, "hours ago")
          ELSE IF diff < Month THEN Ago(diff \div Day, "days ago")
          ELSE IF diff < Year THEN Ago(diff \div Month, "months ago")
          ELSE Ago(diff \div Year, "years ago")

DrawFormatTimeAgo ==
  \E timestamp \in Timestamps :
    call = Pending("formatTimeAgo", [timestamp |-> timestamp, now |-> NowSeconds])

Call_formatTimeAgo ==
  /\ call.fn = "formatTimeAgo" /\ ~call.done
  /\ call' = Returned(call, formatTimeAgo(call.args.timestamp, call.args.now))
  /\ PureFrame

\* C26: formatTimeAgo gives 'Unknown' for a null timestamp and otherwise
\* exactly the bucket of diff = now - timestamp: 'Just now' below 60,
\* minutes below 3600, hours below 86400, days below 2592000, months below
\* 31536000, years from there, each with the count floor(diff / unit).
C26_TimeAgoBucketsByAge ==
  Returns("formatTimeAgo") =>
    LET diff == call.args.now - call.args.timestamp.value
        r == call.result
    IN IF call.args.timestamp.null THEN r = Ago(0, "Unknown")
       ELSE /\ diff < Minute => r = Ago(0, "Just now")
            /\ diff >= Minute /\ diff < Hour => r = Ago(diff \div Minute, "min ago")
            /\ diff >= Hour /\ diff < Day => r = Ago(diff \div Hour, "hours ago")
            /\ diff >= Day /\ diff < Month => r = Ago(diff \div Day, "days ago")
            /\ diff >= Month /\ diff < Year => r = Ago(diff \div Month, "months ago")
            /\ diff >= Year => r = Ago(diff \div Year, "years ago")

PureInit ==
  /\ PureRest
  /\ \/ DrawCacheScan
     \/ DrawDuplicateScan
     \/ DrawFormatBytes
     \/ DrawFormatTimeAgo

PureNext ==
  \/ Call_scan_all_caches
  \/ Call_scan_common_duplicates
  \/ Call_formatBytes
  \/ Call_formatTimeAgo

PureSpec == PureInit /\ [][PureNext]_vars

\* --- Developer-cache totals ---

RECURSIVE SumSize(_)
\* list.reduce((sum, c) => sum + c.size, 0)
SumSize(list) == IF list = <<>> THEN 0 ELSE list[1].size + SumSize(Tail(list))

\* Dashboard: developerCaches.filter(d => d.exists).reduce(...)
totalDevCacheSize(st) == SumSize(SelectSeq(st.developerCaches, LAMBDA d : d.exists))
\* DeveloperTools: existingCaches.reduce(...)
totalSize(st) == SumSize(existingCaches(st))

\* C24: no developer cache in the store that is reported with exists = false
\* has a size above 0, so the totals the Dashboard and the Developer Tools
\* view show, which sum the entries with exists = true, are the sum of all
\* reported sizes.
C24_AbsentEntriesHaveNoSize ==
  /\ \A j \in 1..Len(store.developerCaches) :
       ~store.developerCaches[j].exists => store.developerCaches[j].size = 0
  /\ totalDevCacheSize(store) = SumSize(store.developerCaches)
  /\ totalSize(store) = SumSize(store.developerCaches)

\* A developer scan has just reported an absent entry next to present ones.
C24_Witness ==
  /\ scanLog.last.kind = "developer" /\ scanLog.last.step = "scan" /\ scanLog.last.cmdOk
  /\ store.developerCaches = scanLog.last.res
  /\ \E j \in 1..Len(store.developerCaches) : ~store.developerCaches[j].exists
  /\ totalDevCacheSize(store) > 0

\* --- Reports of a batch delete ---

\* C27: after a batch delete the view has added a success summary toast
\* exactly when at least one delete succeeded and none failed, and a warning
\* summary toast carrying both counts exactly when at least one succeeded and
\* at least one failed; every delete that failed added its own error toast.
C27_BatchSummaryToasts ==
  /\ IsBatch(lastDone) =>
       LET succeeded == Len(lastDone.paths) - Len(lastDone.failed)
           failedCount == Len(lastDone.failed)
       IN /\ (succeeded > 0 /\ failedCount = 0) <=>
               /\ lastDone.summary = <<[type |-> "success", counts |-> <<succeeded>>]>>
               /\ store.toasts # <<>>
               /\ store.toasts[Len(store.toasts)].type = "success"
          /\ (succeeded > 0 /\ failedCount > 0) <=>
               /\ lastDone.summary =
                    <<[type |-> "warning", counts |-> <<succeeded, failedCount>>]>>
               /\ store.toasts # <<>>
               /\ store.toasts[Len(store.toasts)].type = "warning"
  /\ lastDelete.kind # "none" /\ ~lastDelete.result => lastDelete.toasted = <<"error">>

\* --- What the views pass to the delete commands ---

\* C28 (as stated): every path the Cache Cleanup view passes to delete_cache
\* has, when the call is made, an entry with is_safe_to_delete = true in the
\* store's cache list.
C28_OnlySafeCachesDeleted ==
  /\ \A ti \in 1..Len(tasks) : tasks[ti].unsafe = <<>>
  /\ lastDone.unsafe = <<>>

\* The entry of path p in the store's developer catalog
DeveloperEntry(st, p) ==
  st.developerCaches[CHOOSE j \in 1..Len(st.developerCaches) : st.developerCaches[j].path = p]

\* The executeDelete calls of the Developer Tools view, running or just returned
DeveloperRuns ==
  {tasks[ti] : ti \in {j \in 1..Len(tasks) : tasks[j].kind = "developer"}}
    \cup {t \in {lastDone} : t.kind = "developer"}

\* C29: the 'Clean All Safe' batch of Developer Tools passes to
\* clean_developer_cache only paths whose catalog entry has exists = true and
\* safe_to_clean = true in the list shown when the batch is confirmed; a run
\* that passes a caution entry is a single or a selected delete.
C29_CleanAllSafeOnlySafe ==
  /\ [](\A t \in DeveloperRuns :
          \A j \in 1..Len(t.issued) :
            ~DeveloperEntry(store, t.issued[j]).safe_to_clean
              => t.type \in {"single", "selected"})
  /\ [][Len(tasks') > Len(tasks) =>
          LET t == tasks'[Len(tasks')]
          IN t.kind = "developer" /\ t.type = "all" =>
               \A j \in 1..Len(t.paths) :
                 /\ DeveloperEntry(store, t.paths[j]).exists
                 /\ DeveloperEntry(store, t.paths[j]).safe_to_clean]_vars

\* A 'Clean All Safe' batch has returned after cleaning every safe entry
\* while the caution entry of the catalog is on disk.
C29_Witness ==
  /\ lastDone.kind = "developer" /\ lastDone.type = "all"
  /\ lastDone.issued = lastDone.paths
  /\ Len(lastDone.paths) >= 2
  /\ \E j \in 1..Len(store.developerCaches) :
       /\ store.developerCaches[j].exists
       /\ ~store.developerCaches[j].safe_to_clean
       /\ store.developerCaches[j].path \notin Range(lastDone.paths)

\* --- The confirmation dialog ---

\* All executeDelete calls, running or just returned
Runs == {tasks[ti] : ti \in 1..Len(tasks)} \cup {t \in {lastDone} : t.kind # "none"}

\* A step in which a view starts to delete: executeDelete is called and
\* issues its first command
StartsRun == Len(tasks') > Len(tasks)

\* A step in which the open dialog of the mounted view is closed and no
\* executeDelete call is made: the user cancelled
Cancelled ==
  /\ view.confirmDialog.isOpen /\ ~view'.confirmDialog.isOpen
  /\ store'.currentSection = store.currentSection
  /\ Len(tasks') = Len(tasks)
  /\ lastDone' = NoTask

\* C30: every delete command belongs to an executeDelete call that was made
\* while the confirmation dialog was open, for the action the dialog was
\* opened for; a cancel issues no delete and leaves the lists and the
\* selection as they were; the dialog is closed after a confirm and after a
\* cancel.
C30_DeleteOnlyAfterConfirm ==
  /\ [](/\ \A t \in Runs : Range(t.issued) \subseteq Range(t.paths)
        /\ lastDelete.kind # "none" =>
             \E t \in Runs : t.kind = lastDelete.kind /\ lastDelete.path \in Range(t.issued))
  /\ [][StartsRun =>
          LET t == tasks'[Len(tasks')]
              cd == view.confirmDialog
          IN /\ store.currentSection \in Views
             /\ cd.isOpen
             /\ ~view'.confirmDialog.isOpen
             /\ t.kind = store.currentSection
             /\ t.type = cd.type
             /\ t.type = "single" => t.paths = <<cd.path>>
             /\ t.type = "selected" => t.paths = view.selectedPaths
             /\ t.type = "all" => t.paths = AllBatchPaths(t.kind, store)]_vars
  /\ [][Cancelled =>
          /\ tasks' = tasks
          /\ lastDelete' = NoDelete
          /\ \A kind \in Views : ListOf(store', kind) = ListOf(store, kind)
          /\ view'.selectedPaths = view.selectedPaths]_vars

\* The delete of a confirmed single run has returned; the dialog is closed
\* and a selection is left in the view.
C30_Witness ==
  /\ lastDelete.kind # "none"
  /\ lastDone.kind = lastDelete.kind /\ lastDone.type = "single" /\ lastDone.mounted
  /\ ~view.confirmDialog.isOpen
  /\ view.selectedPaths # <<>>

\* --- Termination of a delete run ---

\* The engine command a running executeDelete call awaits is settled
TaskSettles(ti) ==
  \E ok \in BOOLEAN, b \in BOOLEAN :
    \/ DeleteSettles(ti, ok)
    \/ TaskIsDeveloperSettles(ti, ok, b)
    \/ TaskScanSettles(ti, ok)

\* A view that has been opened and has scanned once; the toast of the scan
\* has been dismissed.
RunInit ==
  /\ \E kind \in Views : \E res \in ScanResults(kind) :
       store = [StoreAfterScan(kind, res) EXCEPT !.currentSection = kind]
  /\ view = InitView
  /\ tasks = <<>>
  /\ scans = <<>>
  /\ infoLoads = 0
  /\ navCount = 0
  /\ lastDelete = NoDelete
  /\ lastDone = NoTask
  /\ scanLog = NoScanLog
  /\ lastDismiss = NoDismissal
  /\ call = NoCall

\* The user stays in the view and selects, deletes, cancels and confirms.
RunNext ==
  \/ \E p \in Paths : ToggleSelection(p)
  \/ \E h \in Hashes : ToggleGroup(h)
  \/ ToggleAll
  \/ \E p \in Paths : handleDeleteSingle(p)
  \/ handleDeleteSelected
  \/ handleDeleteAll
  \/ Cancel
  \/ Confirm
  \/ \E ti \in 1..MaxTasks, ok \in BOOLEAN : DeleteSettles(ti, ok)
  \/ \E ti \in 1..MaxTasks, ok \in BOOLEAN, b \in BOOLEAN : TaskIsDeveloperSettles(ti, ok, b)
  \/ \E ti \in 1..MaxTasks, ok \in BOOLEAN : TaskScanSettles(ti, ok)

RunSpec == RunInit /\ [][RunNext]_vars

\* Every engine command answers or fails in the end (the engine has no
\* cancellation: a delete or a scan runs to completion or failure).
FairRunSpec == RunSpec /\ \A ti \in 1..MaxTasks : WF_vars(TaskSettles(ti))

\* C31: every confirmed delete run terminates, whatever its deletes answer:
\* no executeDelete call stays running forever, a view that is deleting
\* stops deleting, and when the call of the mounted view returns, isDeleting
\* is false and progress is (0, 0, '').
C31_DeleteRunTerminates ==
  /\ (tasks # <<>>) ~> (tasks = <<>>)
  /\ view.isDeleting ~> ~view.isDeleting
  /\ [](lastDone.kind # "none" /\ lastDone.mounted =>
          ~view.isDeleting /\ view.progress = NoProgress)

\* A batch of two in which a delete failed has returned in the view that
\* started it.
C31_Witness ==
  /\ lastDone.kind # "none" /\ lastDone.mounted
  /\ Len(lastDone.paths) = 2
  /\ Len(lastDone.failed) >= 1
  /\ ~view.isDeleting

\* --- Scans in flight and deletes ---

\* A step in which the scan scans[si] settles
ScanSettledAt(si) == si \in 1..Len(scans) /\ scans[si].pc = "scan" /\ scans' = RemoveAt(scans, si)

\* C32 (as stated): a scan that was in flight when a store delete operation
\* of its kind succeeded for a path does not bring that path back into the
\* store's list when it settles.
C32_StaleScanKeepsPathDeleted ==
  [][\A si \in 1..Len(scans) :
       ScanSettledAt(si) =>
         \A p \in scans[si].deleted :
           p \notin ListPaths(scans[si].kind, ListOf(store, scans[si].kind))
             => p \notin ListPaths(scans[si].kind, ListOf(store', scans[si].kind))]_vars

\* --- The loading flag under overlapping scans ---

\* The kinds of which a scan operation is in flight: one started by a scan
\* button, or the rescan inside DeveloperTools.executeDelete
KindsScanning ==
  {scans[si].kind : si \in 1..Len(scans)}
    \cup {k \in {"developer"} : \E ti \in 1..Len(tasks) : tasks[ti].pc \in {"isdev", "scandev"}}

\* C33 (as stated): the loading flag of a kind is true whenever at least one
\* scan of that kind is in flight.
C33_LoadingWhileAnyScanInFlight ==
  \A kind \in KindsScanning : IsLoading(store, kind)

(* ------------- store delete operations whose commands overlap --------- *)

MaxPending == 2

\* The views whose delete operation rewrites its result list
ListViews == Views \ {"developer"}

\* The list a delete operation would filter had it read it before its await
ListReadAtCall(now, seen) == seen

\* get().caches, get().orphanFiles, get().largeFiles, get().duplicates:
\* read after the await, when the command has settled (seen: the list as it
\* was when the operation was called)
ListRead(now, seen) == now

NoOverlap(kind, list) ==
  [fn |-> "delete", done |-> FALSE, kind |-> kind, initial |-> list,
   pending |-> <<>>, removed |-> {}, raced |-> {}]

OverlapInit ==
  /\ \E kind \in ListViews : \E res \in ScanResults(kind) :
       /\ store = StoreAfterScan(kind, res)
       /\ call = NoOverlap(kind, res)
  /\ view = InitView
  /\ tasks = <<>>
  /\ scans = <<>>
  /\ infoLoads = 0
  /\ navCount = 0
  /\ lastDelete = NoDelete
  /\ lastDone = NoTask
  /\ scanLog = NoScanLog
  /\ lastDismiss = NoDismissal

OverlapFrame ==
  UNCHANGED <<view, tasks, scans, infoLoads, navCount, lastDelete, lastDone, scanLog,
              lastDismiss>>

\* deleteX(path) up to its await invoke(...)
CallDeleteStarts(path) ==
  /\ Len(call.pending) < MaxPending
  /\ call' = [call EXCEPT !.pending =
                Append([j \in 1..Len(@) |-> [@[j] EXCEPT !.raced = TRUE]],
                       [path |-> path, seen |-> ListOf(store, call.kind),
                        raced |-> call.pending # <<>>])]
  /\ UNCHANGED store
  /\ OverlapFrame

\* the command of a pending deleteX(path) settles; the operation runs to its return
CallDeleteSettles(ci, cmdOk) ==
  /\ ci \in 1..Len(call.pending)
  /\ cmdOk \/ Budget(1)
  /\ LET c == call.pending[ci]
         read == ListRead(ListOf(store, call.kind), c.seen)
         r == StoreDelete(call.kind, SetList(store, call.kind, read), c.path, cmdOk)
     IN /\ store' = IF cmdOk THEN r.store
                     ELSE StoreDelete(call.kind, store, c.path, cmdOk).store
        /\ call' = [call EXCEPT !.pending = RemoveAt(@, ci),
                                !.removed = IF r.result THEN @ \cup {c.path} ELSE @,
                                !.raced = IF r.result /\ c.raced THEN @ \cup {c.path} ELSE @]
  /\ OverlapFrame

OverlapNext ==
  \/ \E path \in Paths : CallDeleteStarts(path)
  \/ \E ci \in 1..MaxPending, ok \in BOOLEAN : CallDeleteSettles(ci, ok)

OverlapSpec == OverlapInit /\ [][OverlapNext]_vars

\* The list with every path of a set removed, whatever the order of removal
Without(kind, list, gone) ==
  IF kind = "duplicates"
  THEN SelectSeq([i \in 1..Len(list) |->
                    [list[i] EXCEPT !.files = SelectSeq(@, LAMBDA f : f \notin gone)]],
                 GroupKept)
  ELSE SelectSeq(list, LAMBDA e : e.path \notin gone)

\* C34: when store delete operations on one result list overlap and succeed,
\* the list is the scanned list without exactly the paths whose delete
\* succeeded, whatever the order in which the commands settled: no removal is
\* lost and no other entry is removed (a duplicate group is dropped only when
\* fewer than two of its files are left).
C34_NoLostUpdate ==
  ListOf(store, call.kind) = Without(call.kind, call.initial, call.removed)

\* Two deletes of different listed paths were in flight together and both succeeded,
\* and an entry is left
C34_Witness ==
  /\ Cardinality(call.raced) = 2
  /\ call.raced \subseteq ListPaths(call.kind, call.initial)
  /\ call.pending = <<>>
  /\ ListOf(store, call.kind) # <<>>

\* --- The selection of a view and the items it lists ---

\* The paths of the items the mounted view lists as deletable
DeletablePaths(st, v) ==
  LET kind == st.currentSection
  IN IF kind \notin Views THEN {}
     ELSE IF kind = "duplicates" THEN {p \in Paths : IsListedCopy(st, p)}
     ELSE CheckboxPaths(kind, st, v)

\* C35 (as stated): in every view the selection is always a subset of the
\* paths of the items currently listed as deletable in that view (for
\* duplicates, the members at index >= 1 of the current groups).
C35_SelectionWithinListed == Range(view.selectedPaths) \subseteq DeletablePaths(store, view)

\* C36 (as stated): a single-item delete changes the selection only for its
\* own path: when it succeeded the selection is the one the run started with
\* without that path, when it failed the selection is unchanged, in every view.
C36_SingleDeleteTouchesOwnPathOnly ==
  lastDone.kind # "none" /\ lastDone.type = "single" /\ lastDone.mounted =>
    Range(view.selectedPaths) =
      IF lastDone.successCount = 1
      THEN Range(lastDone.sel) \ {lastDone.paths[1]}
      ELSE Range(lastDone.sel)

\* --- The rescan of the Developer Tools view ---

\* The clean calls of a run that have settled
CleansSettled(t) == t.successCount + t.failCount

\* The rescan of a run is in flight
Rescanning(t) == t.pc \in {"isdev", "scandev"}

\* C37: in the Developer Tools view every confirmed clean is followed by
\* exactly one rescan of the developer caches: none is issued while a clean
\* call is pending, the one rescan is issued when the last clean call has
\* settled, and while it is in flight no summary toast has been added and
\* isDeleting is still true; when the run ends the rescan has finished, the
\* summary toast (if any) is the newest toast and isDeleting is false.
C37_OneRescanAfterClean ==
  /\ \A ti \in 1..Len(tasks) :
       LET t == tasks[ti]
       IN t.kind = "developer" =>
            /\ t.pc = "delete" => t.rescans = 0 /\ CleansSettled(t) < Len(t.paths)
            /\ Rescanning(t) =>
                 /\ t.rescans = 1
                 /\ CleansSettled(t) = Len(t.paths)
                 /\ t.summary = <<>>
                 /\ t.mounted => view.isDeleting
  /\ lastDone.kind = "developer" =>
       /\ lastDone.rescans = 1
       /\ ~IsLoading(store, "developer")
       /\ lastDone.summary # <<>> =>
            store.toasts[Len(store.toasts)].type = lastDone.summary[1].type
       /\ lastDone.mounted => ~view.isDeleting

\* A batch of two cleans has ended after its rescan, with a summary toast
C37_Witness ==
  /\ lastDone.kind = "developer"
  /\ lastDone.mounted
  /\ Len(lastDone.paths) = 2
  /\ lastDone.rescans = 1
  /\ lastDone.summary # <<>>

\* --- The counter of the progress overlay ---

\* ProgressOverlay: currentIndex + 1, of totalItems
OverlayCounter(pr) == pr.current + 1

\* ProgressOverlay: totalItems > 0 ? ((currentIndex + 1) / totalItems) * 100 : 0,
\* in whole percent
OverlayPercent(pr) ==
  IF pr.total > 0 THEN (OverlayCounter(pr) * 100) \div pr.total ELSE 0

\* C38 (as stated): while a batch runs the reported total is the number n of
\* its items and the reported index goes through 0, 1, ..., n - 1 in
\* increasing order, so that while the overlay is shown its counter is between
\* 1 and the total and its percentage between 0 and 100; no batch over zero
\* items is started.
C38_CounterWithinTotal ==
  /\ \A ti \in 1..Len(tasks) :
       LET t == tasks[ti]
       IN /\ Len(t.paths) >= 1
          /\ \A j \in 1..Len(t.reports) :
               t.reports[j].report.total = Len(t.paths) /\ t.reports[j].report.current = j - 1
  /\ lastDone.kind # "none" =>
       /\ Len(lastDone.paths) >= 1
       /\ Len(lastDone.reports) = Len(lastDone.paths)
       /\ \A j \in 1..Len(lastDone.reports) :
            /\ lastDone.reports[j].report.total = Len(lastDone.paths)
            /\ lastDone.reports[j].report.current = j - 1
  /\ view.isDeleting =>
       /\ OverlayCounter(view.progress) \in 1..view.progress.total
       /\ OverlayPercent(view.progress) \in 0..100

============================================================================
